---- MODULE Spec2Model ----
(***************************************************************************)
(* Journal classifier and asset resolver of the LaTeX-to-Word pipeline     *)
(* (src/src/lib/latex/journal-detector.ts).  JavaScript strings are        *)
(* modelled as sequences of one-character strings, so that substring       *)
(* tests, regular-expression matches, split, trim and join are computed    *)
(* character by character as the code computes them.                       *)
(***************************************************************************)
EXTENDS Integers, Sequences, FiniteSets, TLC

VARIABLES
    JOURNAL_PATTERNS,   \* the module-level pattern tables
    texContent,         \* argument of the detectJournalType call
    scanned,            \* its local `lines`: the text it scans
    scores,             \* its local DetectionScore at the return statement
    result,             \* its return value (NoResult before the call)
    calls,              \* log of completed detectJournalType calls
    req                 \* the conversion requests in flight, each with its
                        \* own inputs, position and local variables

vars == <<JOURNAL_PATTERNS, texContent, scanned, scores, result, calls, req>>

-----------------------------------------------------------------------------
(* String literals of the source.                                          *)

S_documentclass_open ==
    <<"\\","d","o","c","u","m","e","n","t","c","l","a","s","s","[">>  \* \documentclass[
S_ieeecolor ==
    <<"i","e","e","e","c","o","l","o","r">>  \* ieeecolor
S_includegraphics ==
    <<"\\","i","n","c","l","u","d","e","g","r","a","p","h","i","c","s">>  \* \includegraphics
S_LOGO_dash ==
    <<"L","O","G","O","-">>  \* LOGO-
S_logo ==
    <<"l","o","g","o">>  \* logo
S_LOGO_tmi_web ==
    <<"L","O","G","O","-","t","m","i","-","w","e","b">>  \* LOGO-tmi-web
S_LOGO_tmi_web_eps ==
    <<"L","O","G","O","-","t","m","i","-","w","e","b",".","e","p","s">>  \* LOGO-tmi-web.eps
S_bibliographystyle_open ==
    <<"\\","b","i","b","l","i","o","g","r","a","p","h","y","s","t","y","l","e","{">>  \* \bibliographystyle{
S_elsarticle ==
    <<"e","l","s","a","r","t","i","c","l","e">>  \* elsarticle
S_acmart ==
    <<"a","c","m","a","r","t">>  \* acmart
S_IEEEtran ==
    <<"I","E","E","E","t","r","a","n">>  \* IEEEtran
S_sn_jnl ==
    <<"s","n","-","j","n","l">>  \* sn-jnl
S_sn_nature ==
    <<"s","n","-","n","a","t","u","r","e">>  \* sn-nature
S_sn_mathphys ==
    <<"s","n","-","m","a","t","h","p","h","y","s">>  \* sn-mathphys
S_sn_apa ==
    <<"s","n","-","a","p","a">>  \* sn-apa
S_sn_chicago ==
    <<"s","n","-","c","h","i","c","a","g","o">>  \* sn-chicago
S_elsarticle_num ==
    <<"e","l","s","a","r","t","i","c","l","e","-","n","u","m">>  \* elsarticle-num
S_ACM_Reference_Format ==
    <<"A","C","M","-","R","e","f","e","r","e","n","c","e","-","F","o","r","m","a","t">>  \* ACM-Reference-Format
S_sn_mathphys_num ==
    <<"s","n","-","m","a","t","h","p","h","y","s","-","n","u","m">>  \* sn-mathphys-num
S_sn_basic ==
    <<"s","n","-","b","a","s","i","c">>  \* sn-basic

(* The value of the exported JOURNAL_PATTERNS object.  confidence.commands *)
(* is kept as the sequence of its [command, score] entries in insertion    *)
(* order, the order Object.entries enumerates them in.                     *)
JournalPatterns ==
    [ ELSEVIER |->
        [ documentClass |-> << <<"e","l","s","a","r","t","i","c","l","e">>,
               <<"c","a","s","-","s","c">>,
               <<"c","a","s","-","d","c">> >>,
          commands |-> << <<"\\","j","o","u","r","n","a","l","{">>,
               <<"\\","e","a","d","{">>,
               <<"\\","a","d","d","r","e","s","s","[">>,
               <<"\\","f","n","t","e","x","t","[">> >>,
          confidence |->
            [ documentClass |-> 50,
              commands |-> << [command |-> <<"\\","j","o","u","r","n","a","l","{">>, score |-> 20],
                   [command |-> <<"\\","e","a","d","{">>, score |-> 15],
                   [command |-> <<"\\","a","d","d","r","e","s","s","[">>, score |-> 15],
                   [command |-> <<"\\","f","n","t","e","x","t","[">>, score |-> 10] >> ] ],
      SPRINGER_NATURE |->
        [ documentClass |-> << <<"s","n","-","j","n","l">> >>,
          commands |-> << <<"\\","j","o","u","r","n","a","l","n","a","m","e">>,
               <<"\\","t","i","t","l","e","[">>,
               <<"\\","a","u","t","h","o","r","[">>,
               <<"\\","a","f","f","i","l","[">>,
               <<"\\","e","m","a","i","l","{">> >>,
          classOptions |-> << <<"s","n","-","m","a","t","h","p","h","y","s","-","n","u","m">>,
               <<"s","n","-","n","a","t","u","r","e">>,
               <<"s","n","-","b","a","s","i","c">>,
               <<"s","n","-","a","p","s">>,
               <<"s","n","-","v","a","n","c","o","u","v","e","r">>,
               <<"s","n","-","a","p","a">>,
               <<"s","n","-","c","h","i","c","a","g","o">> >>,
          confidence |->
            [ documentClass |-> 50,
              commands |-> << [command |-> <<"\\","j","o","u","r","n","a","l","n","a","m","e">>, score |-> 20],
                   [command |-> <<"\\","t","i","t","l","e","[">>, score |-> 15],
                   [command |-> <<"\\","a","u","t","h","o","r","[">>, score |-> 15],
                   [command |-> <<"\\","a","f","f","i","l","[">>, score |-> 10],
                   [command |-> <<"\\","e","m","a","i","l","{">>, score |-> 10] >> ] ],
      IEEE |->
        [ documentClass |-> << <<"I","E","E","E","t","r","a","n">>,
               <<"i","e","e","e","c","o","l","o","r">> >>,
          commands |-> << <<"\\","I","E","E","E","t","i","t","l","e">>,
               <<"\\","I","E","E","E","a","u","t","h","o","r">>,
               <<"\\","I","E","E","E","k","e","y","w","o","r","d","s">>,
               <<"\\","t","h","a","n","k","s","{">>,
               <<"\\","j","o","u","r","n","a","l","n","a","m","e">> >>,
          packages |-> << <<"i","e","e","e","t","r","a","n">>,
               <<"t","m","i">> >>,
          confidence |->
            [ documentClass |-> 50,
              commands |-> << [command |-> <<"\\","I","E","E","E","t","i","t","l","e">>, score |-> 20],
                   [command |-> <<"\\","I","E","E","E","a","u","t","h","o","r">>, score |-> 15],
                   [command |-> <<"\\","I","E","E","E","k","e","y","w","o","r","d","s">>, score |-> 15],
                   [command |-> <<"\\","t","h","a","n","k","s","{">>, score |-> 10],
                   [command |-> <<"\\","j","o","u","r","n","a","l","n","a","m","e">>, score |-> 10] >> ] ],
      ACM |->
        [ documentClass |-> << <<"a","c","m","a","r","t">> >>,
          commands |-> << <<"\\","a","c","m","C","o","n","f","e","r","e","n","c","e">>,
               <<"\\","a","c","m","Y","e","a","r">>,
               <<"\\","a","c","m","D","O","I">>,
               <<"\\","s","e","t","c","o","p","y","r","i","g","h","t">>,
               <<"\\","c","c","s","d","e","s","c">> >>,
          confidence |->
            [ documentClass |-> 50,
              commands |-> << [command |-> <<"\\","a","c","m","C","o","n","f","e","r","e","n","c","e">>, score |-> 20],
                   [command |-> <<"\\","a","c","m","Y","e","a","r">>, score |-> 15],
                   [command |-> <<"\\","s","e","t","c","o","p","y","r","i","g","h","t">>, score |-> 15],
                   [command |-> <<"\\","c","c","s","d","e","s","c">>, score |-> 10] >> ] ] ]

-----------------------------------------------------------------------------
(* String primitives.                                                      *)

\* String.prototype.includes / a literal regex atom at a fixed position
StartsAt(s, i, m) ==
    /\ i >= 1
    /\ i + Len(m) - 1 <= Len(s)
    /\ (m = <<>> \/ s[i] = m[1])
    /\ SubSeq(s, i, i + Len(m) - 1) = m

includes(s, m) ==
    \/ m = <<>>
    \/ \E i \in 1..(Len(s) - Len(m) + 1) :
            s[i] = m[1] /\ SubSeq(s, i, i + Len(m) - 1) = m

\* position of the first character c at or after position i, 0 if there is none
IndexFrom(s, c, i) ==
    LET hits == {p \in i..Len(s) : s[p] = c}
    IN  IF hits = {} THEN 0 ELSE CHOOSE p \in hits : \A q \in hits : p <= q

\* String.prototype.split with a one-character separator
split(s, c) ==
    LET seps == SelectSeq([p \in 1..Len(s) |-> p], LAMBDA p : s[p] = c)
    IN  [k \in 1..(Len(seps) + 1) |->
            SubSeq(s, IF k = 1 THEN 1 ELSE seps[k - 1] + 1,
                      IF k > Len(seps) THEN Len(s) ELSE seps[k] - 1)]

\* Array.prototype.join with a one-character separator
RECURSIVE join(_, _)
join(parts, c) ==
    IF parts = <<>> THEN <<>>
    ELSE IF Len(parts) = 1 THEN parts[1]
    ELSE LET h == Len(parts) \div 2
         IN  join(SubSeq(parts, 1, h), c) \o <<c>>
             \o join(SubSeq(parts, h + 1, Len(parts)), c)

\* Array.prototype.slice(0, n)
slice0(a, n) == SubSeq(a, 1, IF Len(a) < n THEN Len(a) ELSE n)

WhiteSpace == {" ", "\n", "\t", "\r"}

\* String.prototype.trim
trim(s) ==
    LET keep == {p \in 1..Len(s) : s[p] \notin WhiteSpace}
    IN  IF keep = {} THEN <<>>
        ELSE SubSeq(s, CHOOSE p \in keep : \A q \in keep : p <= q,
                       CHOOSE p \in keep : \A q \in keep : p >= q)

\* Array.prototype.map((p) => p.trim())
trimAll(a) == [k \in 1..Len(a) |-> trim(a[k])]

\* Array.prototype.includes
arrayIncludes(a, x) == \E k \in 1..Len(a) : a[k] = x

\* the value of an optional that is undefined / defined
undefined == <<>>
Some(v) == <<v>>

Min(S) == CHOOSE p \in S : \A q \in S : p <= q

-----------------------------------------------------------------------------
(* detectJournalType                                                       *)

LineLimit == 150

\* the text taken whole
firstLines_whole(text) == text

\* texContent.split("\n").slice(0, 150).join("\n")
firstLines(text) == join(slice0(split(text, "\n"), LineLimit), "\n")

\* lines.match(/\\documentclass\[([^\]]*)\]\{([^}]+)\}/) tried at position i:
\* the options run ends at the first "]", the name at the first "}" after "{"
docClassMatchAt(s, i) ==
    LET o == i + Len(S_documentclass_open)
        j == IndexFrom(s, "]", o)
        k == IF j = 0 THEN 0 ELSE IndexFrom(s, "}", j + 2)
    IN  IF /\ StartsAt(s, i, S_documentclass_open)
           /\ j # 0
           /\ j + 1 <= Len(s)
           /\ s[j + 1] = "{"
           /\ k > j + 2
        THEN Some([options |-> SubSeq(s, o, j - 1),
                   className |-> SubSeq(s, j + 2, k - 1)])
        ELSE undefined

\* the leftmost match, or undefined (null)
docClassMatch(s) ==
    LET at == {i \in 1..Len(s) : docClassMatchAt(s, i) # undefined}
    IN  IF at = {} THEN undefined ELSE docClassMatchAt(s, Min(at))

\* the options split at the commas and left untrimmed
classOptionsOf_untrimmed(options) ==
    IF options = <<>> THEN <<>> ELSE split(options, ",")

\* options ? options.split(",").map((opt) => opt.trim()) : []
classOptionsOf(options) ==
    IF options = <<>> THEN <<>> ELSE trimAll(split(options, ","))

Families == <<"ELSEVIER", "SPRINGER_NATURE", "IEEE", "ACM">>

\* the label pushed with the family's markers
FamilyLabel(fam) ==
    CASE fam = "ELSEVIER" -> "Elsevier"
      [] fam = "SPRINGER_NATURE" -> "Springer Nature"
      [] fam = "IEEE" -> "IEEE"
      [] fam = "ACM" -> "ACM"

\* the if-statement of one family on the matched class name
classHit(P, fam, m) ==
    m # undefined /\ arrayIncludes(P[fam].documentClass, m[1].className)

\* documentClass after the four if-statements: a later hit overwrites
documentClassOf(P, m) ==
    IF classHit(P, "ACM", m) THEN "acmart"
    ELSE IF classHit(P, "IEEE", m)
         THEN (IF includes(m[1].className, S_ieeecolor)
               THEN "ieeecolor" ELSE "IEEEtran")
    ELSE IF classHit(P, "SPRINGER_NATURE", m) THEN "sn-jnl"
    ELSE IF classHit(P, "ELSEVIER", m) THEN "elsarticle"
    ELSE "unknown"

\* occurrences of m in s
occurrences(s, m) == Cardinality({i \in 1..Len(s) : StartsAt(s, i, m)})

\* commandHits counting every occurrence of a command
RECURSIVE repeatEntry(_, _)
repeatEntry(e, n) == IF n = 0 THEN <<>> ELSE <<e>> \o repeatEntry(e, n - 1)

RECURSIVE hitsPerOccurrence(_, _)
hitsPerOccurrence(es, lines) ==
    IF es = <<>> THEN <<>>
    ELSE repeatEntry(es[1], occurrences(lines, es[1].command))
         \o hitsPerOccurrence(Tail(es), lines)

commandHits_perOccurrence(P, fam, lines) ==
    hitsPerOccurrence(P[fam].confidence.commands, lines)

\* the entries of a family's weight table whose command occurs in lines
commandHits(P, fam, lines) ==
    SelectSeq(P[fam].confidence.commands,
              LAMBDA e : includes(lines, e.command))

RECURSIVE sumScores(_)
sumScores(es) ==
    IF es = <<>> THEN 0 ELSE es[1].score + sumScores(Tail(es))

\* a family's score after the class check and its command loop
familyScore(P, fam, lines, m) ==
    (IF classHit(P, fam, m) THEN P[fam].confidence.documentClass ELSE 0)
    + sumScores(commandHits(P, fam, lines))

computeScores(P, lines) ==
    LET m == docClassMatch(lines)
    IN  [elsevier |-> familyScore(P, "ELSEVIER", lines, m),
         springerNature |-> familyScore(P, "SPRINGER_NATURE", lines, m),
         ieee |-> familyScore(P, "IEEE", lines, m),
         acm |-> familyScore(P, "ACM", lines, m)]

\* detectedPatterns: the class entries in family order, then each family's
\* marker entries
classPatterns(P, m) ==
    LET entry(fam) ==
            IF classHit(P, fam, m)
            THEN <<[label |-> "Document class", text |-> m[1].className]>>
            ELSE <<>>
    IN  entry("ELSEVIER") \o entry("SPRINGER_NATURE") \o entry("IEEE")
        \o entry("ACM")

commandPatterns(P, fam, lines) ==
    LET hits == commandHits(P, fam, lines)
    IN  [k \in 1..Len(hits) |->
            [label |-> FamilyLabel(fam), text |-> hits[k].command]]

detectedPatternsOf(P, lines) ==
    classPatterns(P, docClassMatch(lines))
    \o commandPatterns(P, "ELSEVIER", lines)
    \o commandPatterns(P, "SPRINGER_NATURE", lines)
    \o commandPatterns(P, "IEEE", lines)
    \o commandPatterns(P, "ACM", lines)

Max2(a, b) == IF a >= b THEN a ELSE b

\* Math.max over the four scores
maxScoreOf(sc) ==
    Max2(Max2(sc.elsevier, sc.springerNature), Max2(sc.ieee, sc.acm))

\* bestMatch without the maxScore > 0 guards
bestMatch_noPositiveGuard(sc) ==
    LET maxScore == maxScoreOf(sc)
    IN  IF sc.elsevier = maxScore
        THEN [journalType |-> "ELSEVIER", confidence |-> sc.elsevier]
        ELSE IF sc.springerNature = maxScore
        THEN [journalType |-> "SPRINGER_NATURE",
              confidence |-> sc.springerNature]
        ELSE IF sc.ieee = maxScore
        THEN [journalType |-> "IEEE", confidence |-> sc.ieee]
        ELSE [journalType |-> "ACM", confidence |-> sc.acm]

\* bestMatch testing IEEE before Elsevier and Springer Nature
bestMatch_ieeeFirst(sc) ==
    LET maxScore == maxScoreOf(sc)
    IN  IF sc.ieee = maxScore /\ maxScore > 0
        THEN [journalType |-> "IEEE", confidence |-> sc.ieee]
        ELSE IF sc.elsevier = maxScore /\ maxScore > 0
        THEN [journalType |-> "ELSEVIER", confidence |-> sc.elsevier]
        ELSE IF sc.springerNature = maxScore /\ maxScore > 0
        THEN [journalType |-> "SPRINGER_NATURE",
              confidence |-> sc.springerNature]
        ELSE IF sc.acm = maxScore /\ maxScore > 0
        THEN [journalType |-> "ACM", confidence |-> sc.acm]
        ELSE [journalType |-> "GENERIC", confidence |-> 0]

\* "Determine best match": the if / else-if chain
bestMatch(sc) ==
    LET maxScore == maxScoreOf(sc)
    IN  IF sc.elsevier = maxScore /\ maxScore > 0
        THEN [journalType |-> "ELSEVIER", confidence |-> sc.elsevier]
        ELSE IF sc.springerNature = maxScore /\ maxScore > 0
        THEN [journalType |-> "SPRINGER_NATURE",
              confidence |-> sc.springerNature]
        ELSE IF sc.ieee = maxScore /\ maxScore > 0
        THEN [journalType |-> "IEEE", confidence |-> sc.ieee]
        ELSE IF sc.acm = maxScore /\ maxScore > 0
        THEN [journalType |-> "ACM", confidence |-> sc.acm]
        ELSE [journalType |-> "GENERIC", confidence |-> 0]

\* detectLogoRequirement asking IEEE for the image command only
detectLogoRequirement_anyGraphic(content, journalType) ==
    /\ journalType \in {"IEEE", "SPRINGER_NATURE"}
    /\ includes(content, S_includegraphics)

detectLogoRequirement(content, journalType) ==
    IF journalType = "IEEE"
    THEN /\ includes(content, S_includegraphics)
         /\ (includes(content, S_LOGO_dash) \/ includes(content, S_logo))
    ELSE IF /\ journalType = "SPRINGER_NATURE"
            /\ includes(content, S_includegraphics)
         THEN TRUE
         ELSE FALSE

\* [Ll][Oo][Gg][Oo] at position p
logoAt(s, p) ==
    /\ p + 3 <= Len(s)
    /\ s[p] \in {"l", "L"}
    /\ s[p + 1] \in {"o", "O"}
    /\ s[p + 2] \in {"g", "G"}
    /\ s[p + 3] \in {"o", "O"}

LineTerminators == {"\n", "\r"}

\* /\\includegraphics.*?\{([^}]*[Ll][Oo][Gg][Oo][^}]*)\}/ with the command at
\* i and the "{" at b: .*? spans no line terminator, the group runs to the
\* first "}" after b and holds "logo" in any case
logoGroupAt(s, i, b) ==
    LET a == i + Len(S_includegraphics)
        e == IndexFrom(s, "}", b + 1)
    IN  IF /\ StartsAt(s, i, S_includegraphics)
           /\ b >= a
           /\ b <= Len(s)
           /\ s[b] = "{"
           /\ \A p \in a..(b - 1) : s[p] \notin LineTerminators
           /\ e # 0
           /\ \E p \in (b + 1)..(e - 4) : logoAt(s, p)
        THEN Some(SubSeq(s, b + 1, e - 1))
        ELSE undefined

\* the match the engine reports: leftmost start, then the shortest .*?
logoMatch(s) ==
    LET ok(i) == {b \in 1..Len(s) : logoGroupAt(s, i, b) # undefined}
        at == {i \in 1..Len(s) : ok(i) # {}}
    IN  IF at = {} THEN undefined
        ELSE logoGroupAt(s, Min(at), Min(ok(Min(at))))

\* detectLogoName testing the LOGO-tmi-web fragment before the image command
detectLogoName_fragmentFirst(content) ==
    IF includes(content, S_LOGO_tmi_web) THEN Some(S_LOGO_tmi_web_eps)
    ELSE logoMatch(content)

detectLogoName(content) ==
    IF logoMatch(content) # undefined THEN logoMatch(content)
    ELSE IF includes(content, S_LOGO_tmi_web) THEN Some(S_LOGO_tmi_web_eps)
    ELSE undefined

\* /\\bibliographystyle\{([^}]+)\}/ tried at position i
bibStyleMatchAt(s, i) ==
    LET o == i + Len(S_bibliographystyle_open)
        k == IndexFrom(s, "}", o)
    IN  IF StartsAt(s, i, S_bibliographystyle_open) /\ k > o
        THEN Some(SubSeq(s, o, k - 1))
        ELSE undefined

bibStyleMatch(s) ==
    LET at == {i \in 1..Len(s) : bibStyleMatchAt(s, i) # undefined}
    IN  IF at = {} THEN undefined ELSE bibStyleMatchAt(s, Min(at))

\* detectBibStyle inferring from the class names before looking for the
\* \bibliographystyle command
detectBibStyle_classFirst(content) ==
    IF includes(content, S_elsarticle) THEN Some(S_elsarticle_num)
    ELSE IF includes(content, S_acmart) THEN Some(S_ACM_Reference_Format)
    ELSE IF includes(content, S_IEEEtran) \/ includes(content, S_ieeecolor)
         THEN Some(S_IEEEtran)
    ELSE IF includes(content, S_sn_jnl) THEN Some(S_sn_basic)
    ELSE bibStyleMatch(content)

detectBibStyle(content) ==
    IF bibStyleMatch(content) # undefined THEN bibStyleMatch(content)
    ELSE IF includes(content, S_elsarticle) THEN Some(S_elsarticle_num)
    ELSE IF includes(content, S_acmart) THEN Some(S_ACM_Reference_Format)
    ELSE IF includes(content, S_IEEEtran) \/ includes(content, S_ieeecolor)
         THEN Some(S_IEEEtran)
    ELSE IF includes(content, S_sn_jnl)
         THEN (IF includes(content, S_sn_nature) THEN Some(S_sn_nature)
               ELSE IF includes(content, S_sn_mathphys)
                    THEN Some(S_sn_mathphys_num)
               ELSE IF includes(content, S_sn_apa) THEN Some(S_sn_apa)
               ELSE IF includes(content, S_sn_chicago) THEN Some(S_sn_chicago)
               ELSE Some(S_sn_basic))
    ELSE undefined

\* detectJournalType reporting a logo name for IEEE and Springer Nature only
detectJournalType_logoByFamily(P, text) ==
    LET lines == firstLines(text)
        m == docClassMatch(lines)
        best == bestMatch(computeScores(P, lines))
    IN  [journalType |-> best.journalType,
         documentClass |-> documentClassOf(P, m),
         confidence |-> best.confidence,
         detectedPatterns |-> detectedPatternsOf(P, lines),
         classOptions |->
            IF m = undefined THEN <<>> ELSE classOptionsOf(m[1].options),
         bibStyle |-> detectBibStyle(lines),
         requiresLogo |-> detectLogoRequirement(lines, best.journalType),
         logoName |->
            IF best.journalType \in {"IEEE", "SPRINGER_NATURE"}
            THEN detectLogoName(lines) ELSE undefined]

\* detectJournalType naming the class of the winning family
detectJournalType_classOfWinner(P, text) ==
    LET lines == firstLines(text)
        m == docClassMatch(lines)
        best == bestMatch(computeScores(P, lines))
    IN  [journalType |-> best.journalType,
         documentClass |->
            CASE best.journalType = "ELSEVIER" -> "elsarticle"
              [] best.journalType = "SPRINGER_NATURE" -> "sn-jnl"
              [] best.journalType = "IEEE" -> documentClassOf(P, m)
              [] best.journalType = "ACM" -> "acmart"
              [] OTHER -> "unknown",
         confidence |-> best.confidence,
         detectedPatterns |-> detectedPatternsOf(P, lines),
         classOptions |->
            IF m = undefined THEN <<>> ELSE classOptionsOf(m[1].options),
         bibStyle |-> detectBibStyle(lines),
         requiresLogo |-> detectLogoRequirement(lines, best.journalType),
         logoName |-> detectLogoName(lines)]

\* the returned JournalDetectionResult, P being the pattern tables read
detectJournalType(P, text) ==
    LET lines == firstLines(text)
        m == docClassMatch(lines)
        best == bestMatch(computeScores(P, lines))
    IN  [journalType |-> best.journalType,
         documentClass |-> documentClassOf(P, m),
         confidence |-> best.confidence,
         detectedPatterns |-> detectedPatternsOf(P, lines),
         classOptions |->
            IF m = undefined THEN <<>> ELSE classOptionsOf(m[1].options),
         bibStyle |-> detectBibStyle(lines),
         requiresLogo |-> detectLogoRequirement(lines, best.journalType),
         logoName |-> detectLogoName(lines)]

-----------------------------------------------------------------------------
(* resolveAssetPaths                                                       *)

S_input ==
    <<"\\","i","n","p","u","t","{">>  \* \input{
S_include ==
    <<"\\","i","n","c","l","u","d","e","{">>  \* \include{
S_bibliography ==
    <<"\\","b","i","b","l","i","o","g","r","a","p","h","y","{">>  \* \bibliography{

\* the group ([^}]+)\} with its "{" at position b: the capture and the
\* position of the closing brace
braceGroupAt(s, b) ==
    LET k == IndexFrom(s, "}", b + 1)
    IN  IF b >= 1 /\ b <= Len(s) /\ s[b] = "{" /\ k > b + 1
        THEN Some([text |-> SubSeq(s, b + 1, k - 1), end |-> k])
        ELSE undefined

\* the graphics regex without its optional bracket block
graphicsMatchAt_noOptions(s, i) ==
    IF StartsAt(s, i, S_includegraphics)
    THEN braceGroupAt(s, i + Len(S_includegraphics))
    ELSE undefined

\* /\\includegraphics(?:\[[^\]]*\])?\{([^}]+)\}/ tried at position i
graphicsMatchAt(s, i) ==
    LET a == i + Len(S_includegraphics)
        j == IndexFrom(s, "]", a + 1)
    IN  IF ~StartsAt(s, i, S_includegraphics) THEN undefined
        ELSE IF a <= Len(s) /\ s[a] = "[" /\ j # 0
             THEN braceGroupAt(s, j + 1)
        ELSE braceGroupAt(s, a)

\* the input regex reading \includegraphics as an \include
inputMatchAt_anyInclude(s, i) ==
    IF StartsAt(s, i, S_includegraphics)
    THEN graphicsMatchAt(s, i)
    ELSE IF StartsAt(s, i, S_input)
    THEN braceGroupAt(s, i + Len(S_input) - 1)
    ELSE IF StartsAt(s, i, S_include)
    THEN braceGroupAt(s, i + Len(S_include) - 1)
    ELSE undefined

\* /\\(?:input|include)\{([^}]+)\}/ tried at position i
inputMatchAt(s, i) ==
    IF StartsAt(s, i, S_input)
    THEN braceGroupAt(s, i + Len(S_input) - 1)
    ELSE IF StartsAt(s, i, S_include)
    THEN braceGroupAt(s, i + Len(S_include) - 1)
    ELSE undefined

\* /\\bibliography\{([^}]+)\}/ tried at position i
bibMatchAt(s, i) ==
    IF StartsAt(s, i, S_bibliography)
    THEN braceGroupAt(s, i + Len(S_bibliography) - 1)
    ELSE undefined

\* the while ((match = regex.exec(text)) !== null) loops: the captures of
\* the successive matches, each search starting at lastIndex
RECURSIVE execAllGraphics(_, _)
execAllGraphics(s, lastIndex) ==
    LET at == {i \in lastIndex..Len(s) : graphicsMatchAt(s, i) # undefined}
    IN  IF at = {} THEN <<>>
        ELSE LET m == graphicsMatchAt(s, Min(at))[1]
             IN  <<m.text>> \o execAllGraphics(s, m.end + 1)

RECURSIVE execAllInputs(_, _)
execAllInputs(s, lastIndex) ==
    LET at == {i \in lastIndex..Len(s) : inputMatchAt(s, i) # undefined}
    IN  IF at = {} THEN <<>>
        ELSE LET m == inputMatchAt(s, Min(at))[1]
             IN  <<m.text>> \o execAllInputs(s, m.end + 1)

\* the bibliography loop pushing the comma-separated parts as written
RECURSIVE execAllBibs_untrimmed(_, _)
execAllBibs_untrimmed(s, lastIndex) ==
    LET at == {i \in lastIndex..Len(s) : bibMatchAt(s, i) # undefined}
    IN  IF at = {} THEN <<>>
        ELSE LET m == bibMatchAt(s, Min(at))[1]
             IN  split(m.text, ",") \o execAllBibs_untrimmed(s, m.end + 1)

RECURSIVE execAllBibs(_, _)
execAllBibs(s, lastIndex) ==
    LET at == {i \in lastIndex..Len(s) : bibMatchAt(s, i) # undefined}
    IN  IF at = {} THEN <<>>
        ELSE LET m == bibMatchAt(s, Min(at))[1]
             IN  trimAll(split(m.text, ",")) \o execAllBibs(s, m.end + 1)

resolveAssetPaths(text) ==
    [figures |-> execAllGraphics(text, 1),
     inputs |-> execAllInputs(text, 1),
     bibliographies |-> execAllBibs(text, 1)]

-----------------------------------------------------------------------------
(* validateAssets and resolveAssetPath                                     *)

S_dot == <<".">>
S_dotdot == <<".", ".">>

\* normalizeString of path.posix: empty and "." segments dropped, ".."
\* removing the segment before it
RECURSIVE normalizeSegments(_, _, _)
normalizeSegments(segs, res, allowAboveRoot) ==
    IF segs = <<>> THEN res
    ELSE LET seg == Head(segs)
             rest == Tail(segs)
         IN  IF seg = <<>> \/ seg = S_dot
             THEN normalizeSegments(rest, res, allowAboveRoot)
             ELSE IF seg = S_dotdot
             THEN (IF res # <<>> /\ res[Len(res)] # S_dotdot
                   THEN normalizeSegments(rest, SubSeq(res, 1, Len(res) - 1),
                                          allowAboveRoot)
                   ELSE IF allowAboveRoot
                   THEN normalizeSegments(rest, Append(res, seg),
                                          allowAboveRoot)
                   ELSE normalizeSegments(rest, res, allowAboveRoot))
             ELSE normalizeSegments(rest, Append(res, seg), allowAboveRoot)

\* path.normalize
normalize(p) ==
    IF p = <<>> THEN S_dot
    ELSE LET isAbsolute == p[1] = "/"
             trailingSeparator == p[Len(p)] = "/"
             body == join(normalizeSegments(split(p, "/"), <<>>, ~isAbsolute),
                          "/")
         IN  IF body = <<>>
             THEN (IF isAbsolute THEN <<"/">>
                   ELSE IF trailingSeparator THEN <<".", "/">> ELSE S_dot)
             ELSE (IF isAbsolute THEN <<"/">> ELSE <<>>) \o body
                  \o (IF trailingSeparator THEN <<"/">> ELSE <<>>)

\* path.join(a, b)
pathJoin(a, b) ==
    IF a = <<>> /\ b = <<>> THEN S_dot
    ELSE IF a = <<>> THEN normalize(b)
    ELSE IF b = <<>> THEN normalize(a)
    ELSE normalize(a \o <<"/">> \o b)

\* path.basename(p)
basename(p) ==
    LET body == {q \in 1..Len(p) : p[q] # "/"}
        end == CHOOSE q \in body : \A r \in body : q >= r
        seps == {q \in 1..end : p[q] = "/"}
    IN  IF body = {} THEN <<>>
        ELSE IF seps = {} THEN SubSeq(p, 1, end)
        ELSE SubSeq(p, (CHOOSE q \in seps : \A r \in seps : q >= r) + 1, end)

FigureExtensions ==
    << <<".","p","n","g">>, <<".","j","p","g">>, <<".","j","p","e","g">>,
       <<".","p","d","f">>, <<".","e","p","s">>, <<".","s","v","g">> >>
InputExtensions == << <<".","t","e","x">> >>
BibExtensions == << <<".","b","i","b">> >>

\* Array.prototype.find: the first element satisfying the test
firstWithBasename(allFiles, testName) ==
    LET at == {k \in 1..Len(allFiles) : basename(allFiles[k]) = testName}
    IN  IF at = {} THEN undefined ELSE Some(allFiles[Min(at)])

\* the first loop: exact path, then the path with each extension
RECURSIVE tryPaths(_, _, _, _)
tryPaths(assetPath, workingDir, allFiles, exts) ==
    IF exts = <<>> THEN undefined
    ELSE LET fullPath == pathJoin(workingDir, assetPath \o Head(exts))
         IN  IF arrayIncludes(allFiles, fullPath) THEN Some(fullPath)
             ELSE tryPaths(assetPath, workingDir, allFiles, Tail(exts))


\* the second loop trying the bare name only
tryBasenames_exactOnly(name, allFiles, exts) ==
    firstWithBasename(allFiles, name)

\* the second loop: the basename in any directory; an empty found is falsy
RECURSIVE tryBasenames(_, _, _)
tryBasenames(name, allFiles, exts) ==
    IF exts = <<>> THEN undefined
    ELSE LET found == firstWithBasename(allFiles, name \o Head(exts))
         IN  IF found # undefined /\ found[1] # <<>> THEN found
             ELSE tryBasenames(name, allFiles, Tail(exts))

\* resolveAssetPath trying the extensions of every category
resolveAssetPath_anyExtension(assetPath, workingDir, allFiles, extensions) ==
    LET exts == << <<>> >> \o FigureExtensions \o InputExtensions
                \o BibExtensions
        byPath == tryPaths(assetPath, workingDir, allFiles, exts)
    IN  IF byPath # undefined THEN byPath
        ELSE tryBasenames(basename(assetPath), allFiles, exts)

\* resolveAssetPath without its second loop
resolveAssetPath_pathOnly(assetPath, workingDir, allFiles, extensions) ==
    tryPaths(assetPath, workingDir, allFiles, << <<>> >> \o extensions)

\* null is undefined here
resolveAssetPath(assetPath, workingDir, allFiles, extensions) ==
    LET exts == << <<>> >> \o extensions
        byPath == tryPaths(assetPath, workingDir, allFiles, exts)
    IN  IF byPath # undefined THEN byPath
        ELSE tryBasenames(basename(assetPath), allFiles, exts)

S_Figure ==
    <<"F","i","g","u","r","e">>
S_Input_file_not_found ==
    <<"I","n","p","u","t"," ","f","i","l","e"," ","n","o","t"," ","f","o","u","n","d">>
S_Bibliography_not_found ==
    <<"B","i","b","l","i","o","g","r","a","p","h","y"," ","n","o","t"," ","f","o","u","n","d">>

\* the template literal `${label}: ${path}`
reportLine(label, path) == label \o <<":", " ">> \o path

\* the worklist sending every unresolved reference to missing
worklist_allMissing(assetPaths) ==
    [k \in 1..Len(assetPaths.figures) |->
        [ref |-> assetPaths.figures[k], exts |-> FigureExtensions,
         list |-> "missing", label |-> S_Figure]]
    \o [k \in 1..Len(assetPaths.inputs) |->
        [ref |-> assetPaths.inputs[k], exts |-> InputExtensions,
         list |-> "missing", label |-> S_Input_file_not_found]]
    \o [k \in 1..Len(assetPaths.bibliographies) |->
        [ref |-> assetPaths.bibliographies[k], exts |-> BibExtensions,
         list |-> "missing", label |-> S_Bibliography_not_found]]

\* the references validateAssets visits, in its order, each with the
\* extension list and the report it goes to when unresolved
worklist(assetPaths) ==
    [k \in 1..Len(assetPaths.figures) |->
        [ref |-> assetPaths.figures[k], exts |-> FigureExtensions,
         list |-> "missing", label |-> S_Figure]]
    \o [k \in 1..Len(assetPaths.inputs) |->
        [ref |-> assetPaths.inputs[k], exts |-> InputExtensions,
         list |-> "warnings", label |-> S_Input_file_not_found]]
    \o [k \in 1..Len(assetPaths.bibliographies) |->
        [ref |-> assetPaths.bibliographies[k], exts |-> BibExtensions,
         list |-> "warnings", label |-> S_Bibliography_not_found]]

\* a loop iteration that reports the reference, resolved or not
visit_alwaysReport(report, w, workingDir, allFiles) ==
    IF w.list = "missing"
    THEN [report EXCEPT !.missing = Append(@, reportLine(w.label, w.ref))]
    ELSE [report EXCEPT !.warnings = Append(@, reportLine(w.label, w.ref))]

\* one loop iteration: the report after visiting item w
visit(report, w, workingDir, allFiles) ==
    IF resolveAssetPath(w.ref, workingDir, allFiles, w.exts) # undefined
    THEN report
    ELSE IF w.list = "missing"
    THEN [report EXCEPT !.missing = Append(@, reportLine(w.label, w.ref))]
    ELSE [report EXCEPT !.warnings = Append(@, reportLine(w.label, w.ref))]

EmptyReport == [missing |-> <<>>, warnings |-> <<>>]

RECURSIVE visitAll(_, _, _, _)
visitAll(report, work, workingDir, allFiles) ==
    IF work = <<>> THEN report
    ELSE visitAll(visit(report, Head(work), workingDir, allFiles),
                  Tail(work), workingDir, allFiles)

\* the report of a validateAssets call that runs undisturbed
validateAssets(assetPaths, workingDir, allFiles) ==
    visitAll(EmptyReport, worklist(assetPaths), workingDir, allFiles)

-----------------------------------------------------------------------------
(* Input texts: concatenations of at most MaxFrags source fragments.       *)

F_els_opts ==
    <<"\\","d","o","c","u","m","e","n","t","c","l","a","s","s","[","1","1","p","t",",","t","w","o","c","o","l","u","m","n","]","{","e","l","s","a","r","t","i","c","l","e","}","\n">>  \* \documentclass[11pt,twocolumn]{elsarticle}\n
F_els_bare ==
    <<"\\","d","o","c","u","m","e","n","t","c","l","a","s","s","{","e","l","s","a","r","t","i","c","l","e","}","\n">>  \* \documentclass{elsarticle}\n
F_cas_empty ==
    <<"\\","d","o","c","u","m","e","n","t","c","l","a","s","s","[","]","{","c","a","s","-","s","c","}","\n">>  \* \documentclass[]{cas-sc}\n
F_ieee_bare ==
    <<"\\","d","o","c","u","m","e","n","t","c","l","a","s","s","{","I","E","E","E","t","r","a","n","}","\n">>  \* \documentclass{IEEEtran}\n
F_ieee_opts ==
    <<"\\","d","o","c","u","m","e","n","t","c","l","a","s","s","[","j","o","u","r","n","a","l","]","{","I","E","E","E","t","r","a","n","}","\n">>  \* \documentclass[journal]{IEEEtran}\n
F_sn_opts ==
    <<"\\","d","o","c","u","m","e","n","t","c","l","a","s","s","[","s","n","-","n","a","t","u","r","e","]","{","s","n","-","j","n","l","}","\n">>  \* \documentclass[sn-nature]{sn-jnl}\n
F_article ==
    <<"\\","d","o","c","u","m","e","n","t","c","l","a","s","s","[","a","4","p","a","p","e","r",","," ","1","2","p","t"," ","]","{","a","r","t","i","c","l","e","}","\n">>  \* \documentclass[a4paper, 12pt ]{article}\n
F_IEEEkeywords ==
    <<"\\","I","E","E","E","k","e","y","w","o","r","d","s","\n">>  \* \IEEEkeywords\n
F_journalname ==
    <<"\\","j","o","u","r","n","a","l","n","a","m","e">>  \* \journalname
F_journal ==
    <<"\\","j","o","u","r","n","a","l","{">>  \* \journal{
F_IEEEtitle ==
    <<"\\","I","E","E","E","t","i","t","l","e">>  \* \IEEEtitle
F_acmConference ==
    <<"\\","a","c","m","C","o","n","f","e","r","e","n","c","e">>  \* \acmConference
F_title ==
    <<"\\","t","i","t","l","e","[">>  \* \title[
F_graphics_logo ==
    <<"\\","i","n","c","l","u","d","e","g","r","a","p","h","i","c","s","[","w","i","d","t","h","=","1","i","n","]","{","l","o","g","o",".","p","n","g","}">>  \* \includegraphics[width=1in]{logo.png}
F_graphics_tmi ==
    <<"\\","i","n","c","l","u","d","e","g","r","a","p","h","i","c","s","{","L","O","G","O","-","t","m","i","-","w","e","b","}">>  \* \includegraphics{LOGO-tmi-web}
F_graphics_fig ==
    <<"\\","i","n","c","l","u","d","e","g","r","a","p","h","i","c","s","{","f","i","g","1","}">>  \* \includegraphics{fig1}
F_tmi ==
    <<"L","O","G","O","-","t","m","i","-","w","e","b">>  \* LOGO-tmi-web
F_brace_logo ==
    <<"{","m","y"," ","L","o","g","o","}">>  \* {my Logo}
F_newline ==
    <<"\n">>  \* \n
\* LineLimit empty lines: what follows them is beyond the scanned lines
F_blank_lines == [k \in 1..LineLimit |-> "\n"]

Fragments ==
    {F_els_opts, F_els_bare, F_cas_empty, F_ieee_bare,
     F_ieee_opts, F_sn_opts, F_article, F_IEEEkeywords,
     F_journalname, F_journal, F_IEEEtitle, F_acmConference,
     F_title, F_graphics_logo, F_graphics_tmi, F_graphics_fig,
     F_tmi, F_brace_logo, F_newline, F_blank_lines}

MaxFrags == 2

RECURSIVE concat(_)
concat(parts) ==
    IF parts = <<>> THEN <<>> ELSE parts[1] \o concat(Tail(parts))

Texts ==
    UNION {{concat(fs) : fs \in [1..n -> Fragments]} : n \in 0..MaxFrags}

-----------------------------------------------------------------------------
(* One detectJournalType call on a drawn input.                            *)

NoScores == [elsevier |-> 0, springerNature |-> 0, ieee |-> 0, acm |-> 0]
NoResult == [journalType |-> "none"]

Init ==
    /\ JOURNAL_PATTERNS = JournalPatterns
    /\ texContent \in Texts
    /\ scanned = <<>>
    /\ scores = NoScores
    /\ result = NoResult
    /\ calls = <<>>
    /\ req = <<>>

\* the call: reads the tables, leaves them as they are
Detect ==
    /\ result = NoResult
    /\ scanned' = firstLines(texContent)
    /\ scores' = computeScores(JOURNAL_PATTERNS, scanned')
    /\ result' = detectJournalType(JOURNAL_PATTERNS, texContent)
    /\ UNCHANGED <<JOURNAL_PATTERNS, texContent, calls, req>>

Next == Detect

Spec == Init /\ [][Next]_vars

-----------------------------------------------------------------------------
(* One detectJournalType call on a text drawn from class declarations,     *)
(* \bibliographystyle commands and class names in running text.            *)

F_bst_ieee ==
    <<"\\","b","i","b","l","i","o","g","r","a","p","h","y","s","t","y","l","e","{","I","E","E","E","t","r","a","n","}">>  \* \bibliographystyle{IEEEtran}
F_bst_plain ==
    <<"\\","b","i","b","l","i","o","g","r","a","p","h","y","s","t","y","l","e","{","p","l","a","i","n","}","\n">>  \* \bibliographystyle{plain}\n
F_bst_empty ==
    <<"\\","b","i","b","l","i","o","g","r","a","p","h","y","s","t","y","l","e","{","}">>  \* \bibliographystyle{}
F_acm_opts ==
    <<"\\","d","o","c","u","m","e","n","t","c","l","a","s","s","[","s","i","g","c","o","n","f","]","{","a","c","m","a","r","t","}","\n">>  \* \documentclass[sigconf]{acmart}\n
F_sn_twocolumn ==
    <<"\\","d","o","c","u","m","e","n","t","c","l","a","s","s","[","t","w","o","c","o","l","u","m","n","]","{","s","n","-","j","n","l","}","\n">>  \* \documentclass[twocolumn]{sn-jnl}\n
F_word_sn_apa ==
    <<"%"," ","s","n","-","a","p","a","\n">>  \* % sn-apa\n
F_word_elsarticle ==
    <<"%"," ","n","o","t"," ","e","l","s","a","r","t","i","c","l","e","\n">>  \* % not elsarticle\n

BibFragments ==
    {F_bst_ieee, F_bst_plain, F_bst_empty, F_els_opts, F_els_bare,
     F_cas_empty, F_ieee_opts, F_acm_opts, F_sn_opts, F_sn_twocolumn,
     F_article, F_word_sn_apa, F_word_elsarticle, F_IEEEkeywords}

MaxBibFrags == 2

BibTexts ==
    UNION {{concat(fs) : fs \in [1..n -> BibFragments]} : n \in 0..MaxBibFrags}

InitBib ==
    /\ JOURNAL_PATTERNS = JournalPatterns
    /\ texContent \in BibTexts
    /\ scanned = <<>>
    /\ scores = NoScores
    /\ result = NoResult
    /\ calls = <<>>
    /\ req = <<>>

SpecBib == InitBib /\ [][Next]_vars

-----------------------------------------------------------------------------
(* One detectJournalType call on a text made of a family's class           *)
(* declaration, or none, and any of the family's weighted markers.         *)

\* the first class of the family declared with an empty options block, when
\* declared, then the markers ks of the family's weight table, one a line
MarkerText(fam, declared, ks) ==
    LET table == JournalPatterns[fam].confidence.commands
    IN  (IF declared
         THEN S_documentclass_open \o <<"]", "{">>
              \o JournalPatterns[fam].documentClass[1] \o <<"}", "\n">>
         ELSE <<>>)
        \o concat([k \in 1..Len(table) |->
                    IF k \in ks THEN table[k].command \o <<"\n">> ELSE <<>>])

MarkerTexts ==
    UNION {{MarkerText(fam, declared, ks) :
                declared \in BOOLEAN,
                ks \in SUBSET (1..Len(JournalPatterns[fam].confidence.commands))}
           : fam \in {Families[k] : k \in 1..Len(Families)}}

InitMarkers ==
    /\ JOURNAL_PATTERNS = JournalPatterns
    /\ texContent \in MarkerTexts
    /\ scanned = <<>>
    /\ scores = NoScores
    /\ result = NoResult
    /\ calls = <<>>
    /\ req = <<>>

SpecMarkers == InitMarkers /\ [][Next]_vars

-----------------------------------------------------------------------------
(* One detectJournalType call on a text made of the declaration of a class *)
(* and any of the weighted markers of one family, its own or another.      *)

\* \documentclass[twocolumn]{cls}, then the markers ks of the family's
\* weight table, one a line
CrossText(cls, fam, ks) ==
    LET table == JournalPatterns[fam].confidence.commands
    IN  S_documentclass_open \o <<"t","w","o","c","o","l","u","m","n","]","{">> \o cls
        \o <<"}", "\n">>
        \o concat([k \in 1..Len(table) |->
                    IF k \in ks THEN table[k].command \o <<"\n">> ELSE <<>>])

\* the classes declared are those of the four lists and two of no list,
\* article and ieeecolor2
CrossTexts ==
    LET CrossClasses ==
            UNION {{JournalPatterns[fam].documentClass[k] :
                        k \in 1..Len(JournalPatterns[fam].documentClass)}
                   : fam \in {Families[k] : k \in 1..Len(Families)}}
            \cup {<<"a","r","t","i","c","l","e">>,
                  <<"i","e","e","e","c","o","l","o","r","2">>}
    IN
    UNION {{CrossText(cls, fam, ks) :
                cls \in CrossClasses,
                ks \in SUBSET (1..Len(JournalPatterns[fam].confidence.commands))}
           : fam \in {Families[k] : k \in 1..Len(Families)}}

InitCross ==
    /\ JOURNAL_PATTERNS = JournalPatterns
    /\ texContent \in CrossTexts
    /\ scanned = <<>>
    /\ scores = NoScores
    /\ result = NoResult
    /\ calls = <<>>
    /\ req = <<>>

SpecCross == InitCross /\ [][Next]_vars

-----------------------------------------------------------------------------
(* One detectJournalType call on a text whose signals lie before or after  *)
(* a run of empty lines that ends at or about line LineLimit.              *)

TruncFragments ==
    {<<>>, F_ieee_opts, F_els_opts, F_IEEEkeywords, F_journalname,
     F_graphics_logo, F_tmi, F_bst_plain}

\* between two fragments no line break, LineLimit - 1 or LineLimit line
\* breaks
TruncTexts ==
    {head \o pad \o tail :
        head \in TruncFragments,
        pad \in {<<>>, SubSeq(F_blank_lines, 1, LineLimit - 1), F_blank_lines},
        tail \in TruncFragments}

InitTruncate ==
    /\ JOURNAL_PATTERNS = JournalPatterns
    /\ texContent \in TruncTexts
    /\ scanned = <<>>
    /\ scores = NoScores
    /\ result = NoResult
    /\ calls = <<>>
    /\ req = <<>>

SpecTruncate == InitTruncate /\ [][Next]_vars

-----------------------------------------------------------------------------
(* Repeated detectJournalType calls in one process.                        *)

MaxCalls == 3

RepeatTexts ==
    {F_els_opts, F_ieee_bare \o F_IEEEkeywords, F_journalname,
     F_graphics_logo, F_title \o F_graphics_fig}

InitRepeat ==
    /\ JOURNAL_PATTERNS = JournalPatterns
    /\ texContent = <<>>
    /\ scanned = <<>>
    /\ scores = NoScores
    /\ result = NoResult
    /\ calls = <<>>
    /\ req = <<>>

\* DetectCall with the score record kept at module level, not reset by a call
DetectCall_moduleLevelScores ==
    /\ Len(calls) < MaxCalls
    /\ \E t \in RepeatTexts :
          LET add == computeScores(JOURNAL_PATTERNS, firstLines(t))
              sc == [elsevier |-> scores.elsevier + add.elsevier,
                     springerNature |->
                        scores.springerNature + add.springerNature,
                     ieee |-> scores.ieee + add.ieee,
                     acm |-> scores.acm + add.acm]
              r == [detectJournalType(JOURNAL_PATTERNS, t) EXCEPT
                        !.journalType = bestMatch(sc).journalType,
                        !.confidence = bestMatch(sc).confidence]
          IN  /\ texContent' = t
              /\ scanned' = firstLines(t)
              /\ scores' = sc
              /\ result' = r
              /\ calls' = Append(calls, [texContent |-> t, result |-> r])
    /\ UNCHANGED <<JOURNAL_PATTERNS, req>>

\* one more call, on any text: fresh locals, the tables read and left alone
DetectCall ==
    /\ Len(calls) < MaxCalls
    /\ \E t \in RepeatTexts :
          /\ texContent' = t
          /\ scanned' = firstLines(t)
          /\ scores' = computeScores(JOURNAL_PATTERNS, scanned')
          /\ result' = detectJournalType(JOURNAL_PATTERNS, t)
          /\ calls' = Append(calls, [texContent |-> t, result |-> result'])
    /\ UNCHANGED <<JOURNAL_PATTERNS, req>>

NextRepeat == DetectCall

SpecRepeat == InitRepeat /\ [][NextRepeat]_vars

-----------------------------------------------------------------------------
(* Concurrent conversion requests: each request classifies its main file,  *)
(* extracts its references and validates them; validateAssets awaits       *)
(* after every reference, where the other requests may run.                *)

NumRequests == 2

\* \includegraphics[width=3cm]{figs/plot1}\n\input{sec}\n\bibliography{a, b} | /proj | /proj/figs/plot1.png, /proj/a.bib
Job_report ==
    [mainTexContent |->
        <<"\\","i","n","c","l","u","d","e","g","r","a","p","h","i","c","s","[","w","i","d","t","h","=","3","c","m","]","{","f","i","g","s","/","p","l","o","t","1","}","\n","\\","i","n","p","u","t","{","s","e","c","}","\n","\\","b","i","b","l","i","o","g","r","a","p","h","y","{","a",","," ","b","}">>,
     workingDir |-> <<"/","p","r","o","j">>,
     allFiles |->
        << <<"/","p","r","o","j","/","f","i","g","s","/","p","l","o","t","1",".","p","n","g">>,
           <<"/","p","r","o","j","/","a",".","b","i","b">> >>]
\* \documentclass[journal]{IEEEtran}\n\includegraphics{logo}\includegraphics{fig1} | /up/x | /up/x/img/fig1.eps
Job_ieee ==
    [mainTexContent |->
        <<"\\","d","o","c","u","m","e","n","t","c","l","a","s","s","[","j","o","u","r","n","a","l","]","{","I","E","E","E","t","r","a","n","}","\n","\\","i","n","c","l","u","d","e","g","r","a","p","h","i","c","s","{","l","o","g","o","}","\\","i","n","c","l","u","d","e","g","r","a","p","h","i","c","s","{","f","i","g","1","}">>,
     workingDir |-> <<"/","u","p","/","x">>,
     allFiles |->
        << <<"/","u","p","/","x","/","i","m","g","/","f","i","g","1",".","e","p","s">> >>]
\* \journalname | /up/y | no files
Job_plain ==
    [mainTexContent |->
        <<"\\","j","o","u","r","n","a","l","n","a","m","e">>,
     workingDir |-> <<"/","u","p","/","y">>,
     allFiles |->
        <<>>]

Jobs == {Job_report, Job_ieee, Job_plain}

\* a request before the handler has classified its main file
NewRequest(job) ==
    [pc |-> "detect",
     zipContents |-> job,
     journalDetection |-> NoResult,
     assets |-> [figures |-> <<>>, inputs |-> <<>>, bibliographies |-> <<>>],
     k |-> 1,
     report |-> EmptyReport,
     validation |-> EmptyReport]

InitRequests ==
    /\ JOURNAL_PATTERNS = JournalPatterns
    /\ texContent = <<>>
    /\ scanned = <<>>
    /\ scores = NoScores
    /\ result = NoResult
    /\ calls = <<>>
    /\ req \in [1..NumRequests -> {NewRequest(job) : job \in Jobs}]

\* the handler's detectJournalType(zipContents.mainTexContent)
HandlerDetect(r) ==
    /\ req[r].pc = "detect"
    /\ req' = [req EXCEPT
                ![r].journalDetection =
                    detectJournalType(JOURNAL_PATTERNS,
                                      req[r].zipContents.mainTexContent),
                ![r].pc = "convert"]
    /\ UNCHANGED <<JOURNAL_PATTERNS, texContent, scanned, scores, result, calls>>

\* convertLatexToWord up to the first await: resolveAssetPaths, then
\* validateAssets creates its two empty arrays
ConvertStart(r) ==
    /\ req[r].pc = "convert"
    /\ req' = [req EXCEPT
                ![r].assets =
                    resolveAssetPaths(req[r].zipContents.mainTexContent),
                ![r].report = EmptyReport,
                ![r].k = 1,
                ![r].pc = "validate"]
    /\ UNCHANGED <<JOURNAL_PATTERNS, texContent, scanned, scores, result, calls>>

\* ValidateStep appending to arrays that all requests share
ValidateStep_sharedArrays(r) ==
    /\ req[r].pc = "validate"
    /\ req[r].k <= Len(worklist(req[r].assets))
    /\ LET new == visit(req[r].report, worklist(req[r].assets)[req[r].k],
                        req[r].zipContents.workingDir,
                        req[r].zipContents.allFiles)
       IN  req' = [q \in DOMAIN req |->
                     IF q = r
                     THEN [req[q] EXCEPT !.report = new, !.k = @ + 1]
                     ELSE [req[q] EXCEPT !.report = new]]
    /\ UNCHANGED <<JOURNAL_PATTERNS, texContent, scanned, scores, result, calls>>

\* one iteration of a validateAssets loop: await resolveAssetPath(...) and
\* the push that follows it
ValidateStep(r) ==
    /\ req[r].pc = "validate"
    /\ req[r].k <= Len(worklist(req[r].assets))
    /\ req' = [req EXCEPT
                ![r].report =
                    visit(@, worklist(req[r].assets)[req[r].k],
                          req[r].zipContents.workingDir,
                          req[r].zipContents.allFiles),
                ![r].k = @ + 1]
    /\ UNCHANGED <<JOURNAL_PATTERNS, texContent, scanned, scores, result, calls>>

\* return { missing, warnings }
ValidateReturn(r) ==
    /\ req[r].pc = "validate"
    /\ req[r].k > Len(worklist(req[r].assets))
    /\ req' = [req EXCEPT ![r].validation = req[r].report, ![r].pc = "done"]
    /\ UNCHANGED <<JOURNAL_PATTERNS, texContent, scanned, scores, result, calls>>

NextRequests ==
    \E r \in DOMAIN req :
        \/ HandlerDetect(r)
        \/ ConvertStart(r)
        \/ ValidateStep(r)
        \/ ValidateReturn(r)

SpecRequests == InitRequests /\ [][NextRequests]_vars

\* C7: under every interleaving of the requests' steps, each call returns
\* what it returns when run alone on its own inputs, and the pattern tables
\* keep their initial value.
C7_NoInterference ==
    /\ JOURNAL_PATTERNS = JournalPatterns
    /\ \A r \in DOMAIN req :
          LET z == req[r].zipContents
          IN  /\ req[r].pc # "detect"
                 => req[r].journalDetection
                    = detectJournalType(JournalPatterns, z.mainTexContent)
              /\ req[r].pc \in {"validate", "done"}
                 => req[r].assets = resolveAssetPaths(z.mainTexContent)
              /\ req[r].pc = "done"
                 => req[r].validation
                    = validateAssets(resolveAssetPaths(z.mainTexContent),
                                     z.workingDir, z.allFiles)

\* two requests on different archives finished after both were inside
\* validateAssets, each with reports of its own
C7_Witness ==
    /\ req # <<>>
    /\ req[1].pc = "done"
    /\ req[2].pc = "done"
    /\ req[1].zipContents # req[2].zipContents
    /\ req[1].validation.warnings # <<>>
    /\ req[2].validation.missing # <<>>
    /\ req[1].validation # req[2].validation


-----------------------------------------------------------------------------
(* One request on an archive whose main file is a concatenation of at     *)
(* most MaxAssetFrags reference commands, with one of a few manifests.     *)

\* \includegraphics[width=3cm]{figs/plot1}
\* \includegraphics{./plot1.png}
\* \includegraphics{}
\* \includegraphics{img/missing}
\* \input{sec}
\* \include{ch/intro}\n
\* \bibliography{a, b ,c}
\* \bibliography{refs}\n
\* \bibliographystyle{plain}
AssetFragments ==
    {<<"\\","i","n","c","l","u","d","e","g","r","a","p","h","i","c","s","{","i","m","g","/","m","i","s","s","i","n","g","}">>,
     <<"\\","i","n","c","l","u","d","e","g","r","a","p","h","i","c","s","[","w","i","d","t","h","=","3","c","m","]","{","f","i","g","s","/","p","l","o","t","1","}">>,
     <<"\\","i","n","c","l","u","d","e","g","r","a","p","h","i","c","s","{",".","/","p","l","o","t","1",".","p","n","g","}">>,
     <<"\\","i","n","c","l","u","d","e","g","r","a","p","h","i","c","s","{","}">>,
     <<"\\","i","n","p","u","t","{","s","e","c","}">>,
     <<"\\","i","n","c","l","u","d","e","{","c","h","/","i","n","t","r","o","}","\n">>,
     <<"\\","b","i","b","l","i","o","g","r","a","p","h","y","{","a",","," ","b"," ",",","c","}">>,
     <<"\\","b","i","b","l","i","o","g","r","a","p","h","y","{","r","e","f","s","}","\n">>,
     <<"\\","b","i","b","l","i","o","g","r","a","p","h","y","s","t","y","l","e","{","p","l","a","i","n","}">>}

MaxAssetFrags == 2

AssetTexts ==
    UNION {{concat(fs) : fs \in [1..n -> AssetFragments]} :
              n \in 0..MaxAssetFrags}

\* the extracted archive's file lists, all under or beside /proj
\*   no files
\*   /proj/figs/plot1.png
\*   /proj/other/plot1.pdf, /proj/sec.tex, /proj/a.bib, /proj/refs.bib
\*   /proj/figs/plot1.tex, /proj/sec.png, /proj/refs.tex, /proj/ch/intro.bib
\*   /proj/plot1.png, /proj/ch/intro.tex, /proj/b.bib, /else/c.bib
Manifests ==
    {<<>>,
     << <<"/","p","r","o","j","/","f","i","g","s","/","p","l","o","t","1",".","p","n","g">> >>,
     << <<"/","p","r","o","j","/","o","t","h","e","r","/","p","l","o","t","1",".","p","d","f">>,
           <<"/","p","r","o","j","/","s","e","c",".","t","e","x">>,
           <<"/","p","r","o","j","/","a",".","b","i","b">>,
           <<"/","p","r","o","j","/","r","e","f","s",".","b","i","b">> >>,
     << <<"/","p","r","o","j","/","f","i","g","s","/","p","l","o","t","1",".","t","e","x">>,
           <<"/","p","r","o","j","/","s","e","c",".","p","n","g">>,
           <<"/","p","r","o","j","/","r","e","f","s",".","t","e","x">>,
           <<"/","p","r","o","j","/","c","h","/","i","n","t","r","o",".","b","i","b">> >>,
     << <<"/","p","r","o","j","/","p","l","o","t","1",".","p","n","g">>,
           <<"/","p","r","o","j","/","c","h","/","i","n","t","r","o",".","t","e","x">>,
           <<"/","p","r","o","j","/","b",".","b","i","b">>,
           <<"/","e","l","s","e","/","c",".","b","i","b">> >>}

S_proj ==
    <<"/","p","r","o","j">>

AssetJobs ==
    {[mainTexContent |-> t, workingDir |-> S_proj, allFiles |-> files] :
        t \in AssetTexts, files \in Manifests}

InitAssets ==
    /\ JOURNAL_PATTERNS = JournalPatterns
    /\ texContent = <<>>
    /\ scanned = <<>>
    /\ scores = NoScores
    /\ result = NoResult
    /\ calls = <<>>
    /\ req \in [1..1 -> {NewRequest(job) : job \in AssetJobs}]

SpecAssets == InitAssets /\ [][NextRequests]_vars

-----------------------------------------------------------------------------
(* convertLatexToWord of the local and of the remote engine, for one       *)
(* request: what follows the return of validateAssets. The file system,    *)
(* the pandoc process and the remote commands answer as they like.         *)

S_Missing_assets ==
    <<"M","i","s","s","i","n","g"," ","a","s","s","e","t","s",":"," ">>
\* a warning line of pandoc
S_pandoc_warning ==
    <<"[","W","A","R","N","I","N","G","]"," ","C","o","u","l","d"," ","n","o","t"," ","c","o","n","v","e","r","t"," ","T","e","X"," ","m","a","t","h">>
\* the warning of a failed upload
S_upload_warning ==
    <<"F","a","i","l","e","d"," ","t","o"," ","u","p","l","o","a","d",":"," ","m","a","i","n",".","t","e","x">>

\* Array.prototype.join with the separator ", "
RECURSIVE joinComma(_)
joinComma(parts) ==
    IF parts = <<>> THEN <<>>
    ELSE IF Len(parts) = 1 THEN parts[1]
    ELSE parts[1] \o <<",", " ">> \o joinComma(Tail(parts))

\* the lookup templateMap[detection.journalType] || generic
selectTemplateName(detection) ==
    CASE detection.journalType = "ELSEVIER" -> "elsevier_publication.yaml"
      [] detection.journalType = "SPRINGER_NATURE" ->
            "springer_publication.yaml"
      [] detection.journalType = "IEEE" -> "ieee_publication.yaml"
      [] detection.journalType = "ACM" -> "acm_publication.yaml"
      [] OTHER -> "generic_publication.yaml"

\* selectTemplate of the local engine: manualJournal is looked at and
\* left unused; the path of the template if fs.access finds it, else null
selectTemplate_manualOverride(detection, manualJournal, exists) ==
    IF manualJournal # "" THEN manualJournal
    ELSE IF exists THEN selectTemplateName(detection) ELSE "null"

selectTemplate(detection, manualJournal, exists) ==
    IF exists THEN selectTemplateName(detection) ELSE "null"

Engines == {"local", "remote"}

\* the manualJournal form field: absent, or a journal named by the user
ManualJournals == {"", "nature_publication.yaml"}

\* the two manifests a converted archive comes with: no file, and
\* /proj/figs/plot1.png
ConvertManifests ==
    {<<>>,
     << <<"/","p","r","o","j","/","f","i","g","s","/","p","l","o","t","1",".","p","n","g">> >>}

\* the main files converted: the reference commands, and a declaration of
\* a class of each family
ConvertTexts ==
    AssetTexts \cup {F_els_opts, F_sn_opts, F_ieee_opts, F_acm_opts}

\* a request of the given engine before the handler has classified its
\* main file
NewConversion(job, engine, manualJournal) ==
    [pc |-> "detect",
     zipContents |-> job,
     journalDetection |-> NoResult,
     assets |-> [figures |-> <<>>, inputs |-> <<>>, bibliographies |-> <<>>],
     k |-> 1,
     report |-> EmptyReport,
     validation |-> EmptyReport,
     engine |-> engine,
     manualJournal |-> manualJournal,
     warnings |-> <<>>,
     templateName |-> "",
     invoked |-> FALSE,
     conversionResult |-> NoResult]

InitConvert ==
    /\ JOURNAL_PATTERNS = JournalPatterns
    /\ texContent = <<>>
    /\ scanned = <<>>
    /\ scores = NoScores
    /\ result = NoResult
    /\ calls = <<>>
    /\ req \in [1..1 ->
                 {NewConversion([mainTexContent |-> t, workingDir |-> S_proj,
                                 allFiles |-> files], engine, manual) :
                     t \in ConvertTexts, files \in ConvertManifests,
                     engine \in Engines, manual \in ManualJournals}]

\* the catch block: return { success: false, errorMessage, warnings }
Failed(q, errorMessage) ==
    [q EXCEPT !.pc = "returned",
              !.conversionResult =
                  [success |-> FALSE, errorMessage |-> errorMessage,
                   warnings |-> q.warnings]]

\* a step failing the conversion whenever an asset is missing
CollectWarnings_failOnMissing(r) ==
    /\ req[r].pc = "done"
    /\ LET v == req[r].validation
           q == [req[r] EXCEPT !.warnings = v.warnings]
       IN  req' = [req EXCEPT ![r] =
                     IF v.missing # <<>> THEN Failed(q, "Missing assets")
                     ELSE [q EXCEPT !.pc = IF q.engine = "local"
                                           THEN "selectTemplate"
                                           ELSE "setupRemoteEnvironment"]]
    /\ UNCHANGED <<JOURNAL_PATTERNS, texContent, scanned, scores, result, calls>>

\* after await validateAssets: the warnings are copied and a non-empty
\* missing list becomes one warning; the engine's next await follows
CollectWarnings(r) ==
    /\ req[r].pc = "done"
    /\ LET v == req[r].validation
       IN  req' = [req EXCEPT
                     ![r].warnings =
                         v.warnings
                         \o (IF Len(v.missing) > 0
                             THEN <<S_Missing_assets \o joinComma(v.missing)>>
                             ELSE <<>>),
                     ![r].pc = IF req[r].engine = "local"
                               THEN "selectTemplate"
                               ELSE "setupRemoteEnvironment"]
    /\ UNCHANGED <<JOURNAL_PATTERNS, texContent, scanned, scores, result, calls>>

\* local engine: selectTemplate returns the template's path or null, then
\* runPandocConversion spawns pandoc
SelectTemplate(r) ==
    /\ req[r].pc = "selectTemplate"
    /\ \E exists \in BOOLEAN :
          req' = [req EXCEPT
                    ![r].templateName =
                        selectTemplate(req[r].journalDetection,
                                       req[r].manualJournal, exists),
                    ![r].invoked = TRUE,
                    ![r].pc = "runPandocConversion"]
    /\ UNCHANGED <<JOURNAL_PATTERNS, texContent, scanned, scores, result, calls>>

\* local engine: pandoc closes with code 0, with or without warnings on
\* stderr, or with another code, or could not be spawned
RunPandocConversion(r) ==
    /\ req[r].pc = "runPandocConversion"
    /\ \E outcome \in {"ok", "warnings", "exit", "error"} :
          req' = [req EXCEPT ![r] =
                    CASE outcome = "ok" ->
                            [@ EXCEPT !.pc = "gatherConversionStats"]
                      [] outcome = "warnings" ->
                            [@ EXCEPT !.pc = "gatherConversionStats",
                                      !.warnings = Append(@, S_pandoc_warning)]
                      [] outcome = "exit" ->
                            Failed(@, "Pandoc conversion failed")
                      [] outcome = "error" ->
                            Failed(@, "Failed to spawn Pandoc")]
    /\ UNCHANGED <<JOURNAL_PATTERNS, texContent, scanned, scores, result, calls>>

\* remote engine: setupRemoteEnvironment succeeds or the engine throws
SetupRemoteEnvironment(r) ==
    /\ req[r].pc = "setupRemoteEnvironment"
    /\ \E success \in BOOLEAN :
          req' = [req EXCEPT ![r] =
                    IF success THEN [@ EXCEPT !.pc = "uploadFilesToRemote"]
                    ELSE Failed(@, "Failed to setup remote environment")]
    /\ UNCHANGED <<JOURNAL_PATTERNS, texContent, scanned, scores, result, calls>>

\* remote engine: the uploads, a failed one leaving a warning; then
\* selectTemplateName and the start of runRemotePandocConversion
UploadFilesToRemote(r) ==
    /\ req[r].pc = "uploadFilesToRemote"
    /\ \E uploaded \in BOOLEAN :
          req' = [req EXCEPT
                    ![r].warnings =
                        IF uploaded THEN @ ELSE Append(@, S_upload_warning),
                    ![r].templateName =
                        selectTemplateName(req[r].journalDetection),
                    ![r].pc = "runRemotePandocConversion"]
    /\ UNCHANGED <<JOURNAL_PATTERNS, texContent, scanned, scores, result, calls>>

\* remote engine: the main file is not found, or pandoc runs and succeeds,
\* with or without warnings in its output, or fails, or leaves no output
RunRemotePandocConversion(r) ==
    /\ req[r].pc = "runRemotePandocConversion"
    /\ \E outcome \in {"notFound", "ok", "warnings", "failed", "noOutput"} :
          req' = [req EXCEPT ![r] =
                    CASE outcome = "notFound" ->
                            Failed(@, "Could not find main .tex file on remote server")
                      [] outcome = "ok" ->
                            [@ EXCEPT !.invoked = TRUE,
                                      !.pc = "downloadConvertedFile"]
                      [] outcome = "warnings" ->
                            [@ EXCEPT !.invoked = TRUE,
                                      !.warnings = Append(@, S_pandoc_warning),
                                      !.pc = "downloadConvertedFile"]
                      [] outcome = "failed" ->
                            Failed([@ EXCEPT
                                      !.invoked = TRUE,
                                      !.warnings = Append(@, S_pandoc_warning)],
                                   "Pandoc conversion failed")
                      [] outcome = "noOutput" ->
                            Failed([@ EXCEPT !.invoked = TRUE],
                                   "Output file was not created")]
    /\ UNCHANGED <<JOURNAL_PATTERNS, texContent, scanned, scores, result, calls>>

\* remote engine: downloadConvertedFile, then cleanupRemoteDirectory, which
\* does not throw
DownloadConvertedFile(r) ==
    /\ req[r].pc = "downloadConvertedFile"
    /\ \E success \in BOOLEAN :
          req' = [req EXCEPT ![r] =
                    IF success THEN [@ EXCEPT !.pc = "gatherConversionStats"]
                    ELSE Failed(@, "Failed to download converted file from remote server")]
    /\ UNCHANGED <<JOURNAL_PATTERNS, texContent, scanned, scores, result, calls>>

\* both engines: gatherConversionStats, whose fs.stat may throw, and the
\* return of the result
GatherConversionStats(r) ==
    /\ req[r].pc = "gatherConversionStats"
    /\ \E statted \in BOOLEAN :
          req' = [req EXCEPT ![r] =
                    IF statted
                    THEN [@ EXCEPT
                            !.pc = "returned",
                            !.conversionResult =
                                [success |-> TRUE,
                                 detectedJournal |->
                                    req[r].journalDetection.journalType,
                                 documentClass |->
                                    req[r].journalDetection.documentClass,
                                 figureCount |-> Len(req[r].assets.figures),
                                 warningCount |-> Len(req[r].warnings),
                                 warnings |-> req[r].warnings]]
                    ELSE Failed(@, "ENOENT")]
    /\ UNCHANGED <<JOURNAL_PATTERNS, texContent, scanned, scores, result, calls>>

NextConvert ==
    \E r \in DOMAIN req :
        \/ HandlerDetect(r)
        \/ ConvertStart(r)
        \/ ValidateStep(r)
        \/ ValidateReturn(r)
        \/ CollectWarnings(r)
        \/ SelectTemplate(r)
        \/ RunPandocConversion(r)
        \/ SetupRemoteEnvironment(r)
        \/ UploadFilesToRemote(r)
        \/ RunRemotePandocConversion(r)
        \/ DownloadConvertedFile(r)
        \/ GatherConversionStats(r)

SpecConvert == InitConvert /\ [][NextConvert]_vars

-----------------------------------------------------------------------------
(* extractAndAnalyzeZip and findMainTexFile                                *)

\* String.prototype.toLowerCase
toLowerCase(s) ==
    LET UpperToLower ==
        "A" :> "a" @@ "B" :> "b" @@ "C" :> "c" @@ "D" :> "d" @@ "E" :> "e"
            @@ "F" :> "f" @@ "G" :> "g" @@ "H" :> "h" @@ "I" :> "i" @@ "J" :> "j"
            @@ "K" :> "k" @@ "L" :> "l" @@ "M" :> "m" @@ "N" :> "n" @@ "O" :> "o"
            @@ "P" :> "p" @@ "Q" :> "q" @@ "R" :> "r" @@ "S" :> "s" @@ "T" :> "t"
            @@ "U" :> "u" @@ "V" :> "v" @@ "W" :> "w" @@ "X" :> "x" @@ "Y" :> "y"
            @@ "Z" :> "z"
    IN  [k \in 1..Len(s) |->
            IF s[k] \in DOMAIN UpperToLower THEN UpperToLower[s[k]]
            ELSE s[k]]

\* String.prototype.endsWith
endsWith(s, m) ==
    Len(s) >= Len(m) /\ SubSeq(s, Len(s) - Len(m) + 1, Len(s)) = m

\* /\.(tex|latex)$/i.test(f)
isTexFile(f) ==
    \/ endsWith(toLowerCase(f), <<".", "t", "e", "x">>)
    \/ endsWith(toLowerCase(f), <<".", "l", "a", "t", "e", "x">>)

\* the file of the disk at a path
fileAt(disk, p) ==
    CHOOSE f \in {disk.files[k] : k \in 1..Len(disk.files)} : f.path = p

\* the priority given to the name of a file that holds \documentclass
priorityOf(texFile) ==
    LET name == toLowerCase(basename(texFile))
    IN  IF name = <<"m","a","i","n",".","t","e","x">> THEN 100
        ELSE IF name = <<"p","a","p","e","r",".","t","e","x">> THEN 90
        ELSE IF name = <<"d","o","c","u","m","e","n","t",".","t","e","x">>
        THEN 80
        ELSE IF name
                = <<"m","a","n","u","s","c","r","i","p","t",".","t","e","x">>
        THEN 70
        ELSE IF includes(name, <<"m","a","i","n">>) THEN 60
        ELSE 50

mainPatterns ==
    << <<"m","a","i","n",".","t","e","x">>,
       <<"p","a","p","e","r",".","t","e","x">>,
       <<"d","o","c","u","m","e","n","t",".","t","e","x">>,
       <<"m","a","n","u","s","c","r","i","p","t",".","t","e","x">> >>

\* the first loop: the readable files that hold \documentclass, in the
\* order of texFiles
filesWithDocClass(texFiles, disk) ==
    LET holds(p) ==
            /\ p \notin disk.unreadable
            /\ includes(fileAt(disk, p).content,
                        <<"\\","d","o","c","u","m","e","n","t","c","l","a","s","s">>)
        kept == SelectSeq(texFiles, holds)
    IN  [k \in 1..Len(kept) |->
            [file |-> kept[k], priority |-> priorityOf(kept[k]),
             size |-> fileAt(disk, kept[k]).size]]

\* element 0 of the array after its stable sort by priority, then size,
\* both descending
sortedFirst(cands) ==
    LET before(a, b) ==
            \/ a.priority > b.priority
            \/ a.priority = b.priority /\ a.size > b.size
        k == CHOOSE k \in 1..Len(cands) :
                /\ \A j \in 1..Len(cands) : ~before(cands[j], cands[k])
                /\ \A j \in 1..(k - 1) : before(cands[k], cands[j])
    IN  cands[k]

\* the fallback loop over mainPatterns: the first file named as the first
\* pattern that names a file
RECURSIVE firstNamed(_, _)
firstNamed(texFiles, patterns) ==
    IF patterns = <<>> THEN undefined
    ELSE LET at == {k \in 1..Len(texFiles) :
                      toLowerCase(basename(texFiles[k])) = Head(patterns)}
         IN  IF at # {} THEN Some(texFiles[Min(at)])
             ELSE firstNamed(texFiles, Tail(patterns))

\* the last loop: the first file larger than all before it, starting from
\* texFiles[0] and size 0
RECURSIVE largestFrom(_, _, _, _)
largestFrom(texFiles, disk, largestFile, largestSize) ==
    IF texFiles = <<>> THEN largestFile
    ELSE IF fileAt(disk, Head(texFiles)).size > largestSize
    THEN largestFrom(Tail(texFiles), disk, Head(texFiles),
                     fileAt(disk, Head(texFiles)).size)
    ELSE largestFrom(Tail(texFiles), disk, largestFile, largestSize)

\* findMainTexFile choosing by name before looking for \documentclass
findMainTexFile_nameFirst(texFiles, disk) ==
    IF Len(texFiles) = 0 THEN undefined
    ELSE IF Len(texFiles) = 1 THEN Some(texFiles[1])
    ELSE IF firstNamed(texFiles, mainPatterns) # undefined
    THEN firstNamed(texFiles, mainPatterns)
    ELSE IF Len(filesWithDocClass(texFiles, disk)) > 0
    THEN Some(sortedFirst(filesWithDocClass(texFiles, disk)).file)
    ELSE Some(largestFrom(texFiles, disk, texFiles[1], 0))

\* null is undefined here
findMainTexFile(texFiles, disk) ==
    IF Len(texFiles) = 0 THEN undefined
    ELSE IF Len(texFiles) = 1 THEN Some(texFiles[1])
    ELSE IF Len(filesWithDocClass(texFiles, disk)) > 0
    THEN Some(sortedFirst(filesWithDocClass(texFiles, disk)).file)
    ELSE IF firstNamed(texFiles, mainPatterns) # undefined
    THEN firstNamed(texFiles, mainPatterns)
    ELSE Some(largestFrom(texFiles, disk, texFiles[1], 0))

\* the files an archive is made of, all under /w:
\*   /w/main.tex (30 bytes): \documentclass{article}
\*   /w/old/MAIN.TEX (50 bytes): \documentclass{article}
\*   /w/paper.tex (80 bytes): \input{sec}
\*   /w/manuscript.latex (60 bytes): \documentclass[a4paper]{article}
\*   /w/domain.tex (20 bytes): \documentclass{book}
\*   /w/sec.tex (95 bytes): \section{x}
\*   /w/refs.bib (70 bytes): @book{
\*   /w/document.tex (10 bytes): \documentclass{article}\input{sec}
ArchivePool ==
    {[path |-> <<"/","w","/","m","a","i","n",".","t","e","x">>,
      content |-> <<"\\","d","o","c","u","m","e","n","t","c","l","a","s","s","{","a","r","t","i","c","l","e","}">>,
      size |-> 30],
     [path |-> <<"/","w","/","o","l","d","/","M","A","I","N",".","T","E","X">>,
      content |-> <<"\\","d","o","c","u","m","e","n","t","c","l","a","s","s","{","a","r","t","i","c","l","e","}">>,
      size |-> 50],
     [path |-> <<"/","w","/","p","a","p","e","r",".","t","e","x">>,
      content |-> <<"\\","i","n","p","u","t","{","s","e","c","}">>,
      size |-> 80],
     [path |-> <<"/","w","/","m","a","n","u","s","c","r","i","p","t",".","l","a","t","e","x">>,
      content |-> <<"\\","d","o","c","u","m","e","n","t","c","l","a","s","s","[","a","4","p","a","p","e","r","]","{","a","r","t","i","c","l","e","}">>,
      size |-> 60],
     [path |-> <<"/","w","/","d","o","m","a","i","n",".","t","e","x">>,
      content |-> <<"\\","d","o","c","u","m","e","n","t","c","l","a","s","s","{","b","o","o","k","}">>,
      size |-> 20],
     [path |-> <<"/","w","/","s","e","c",".","t","e","x">>,
      content |-> <<"\\","s","e","c","t","i","o","n","{","x","}">>,
      size |-> 95],
     [path |-> <<"/","w","/","r","e","f","s",".","b","i","b">>,
      content |-> <<"@","b","o","o","k","{">>,
      size |-> 70],
     [path |-> <<"/","w","/","d","o","c","u","m","e","n","t",".","t","e","x">>,
      content |-> <<"\\","d","o","c","u","m","e","n","t","c","l","a","s","s","{","a","r","t","i","c","l","e","}","\\","i","n","p","u","t","{","s","e","c","}">>,
      size |-> 10]}

MaxArchive == 3

\* the extracted archives: at most MaxArchive files of the pool in the
\* order findAllFiles lists them, at most one of them unreadable
Disks ==
    UNION {{[files |-> fs, unreadable |-> u] :
                fs \in {fs \in [1..n -> ArchivePool] :
                          \A i, j \in 1..n : i # j => fs[i] # fs[j]},
                u \in {{}} \cup {{p} : p \in {f.path : f \in ArchivePool}}}
           : n \in 0..MaxArchive}

InitExtract ==
    /\ JOURNAL_PATTERNS = JournalPatterns
    /\ texContent = <<>>
    /\ scanned = <<>>
    /\ scores = NoScores
    /\ result = NoResult
    /\ calls = <<>>
    /\ req \in [1..1 -> {[pc |-> "extract", disk |-> d] : d \in Disks}]

\* extractAndAnalyzeZip once the archive is extracted to /w: the file
\* lists, the main file and its text, or the error thrown
extractAndAnalyzeZip(disk) ==
    LET allFiles == [k \in 1..Len(disk.files) |-> disk.files[k].path]
        texFiles == SelectSeq(allFiles, isTexFile)
        mainTexFile == findMainTexFile(texFiles, disk)
    IN  IF mainTexFile = undefined
        THEN [ok |-> FALSE, texFiles |-> texFiles, mainTexFile |-> mainTexFile,
              error |-> "Failed to extract ZIP file: No main LaTeX file found"]
        ELSE IF mainTexFile[1] \in disk.unreadable
        THEN [ok |-> FALSE, texFiles |-> texFiles, mainTexFile |-> mainTexFile,
              error |-> "Failed to extract ZIP file: EACCES"]
        ELSE [ok |-> TRUE, texFiles |-> texFiles, mainTexFile |-> mainTexFile,
              zipContents |->
                 [mainTexFile |-> mainTexFile[1],
                  mainTexContent |-> fileAt(disk, mainTexFile[1]).content,
                  workingDir |-> <<"/", "w">>,
                  allFiles |-> allFiles,
                  texFiles |-> texFiles]]

ExtractAndAnalyzeZip(r) ==
    /\ req[r].pc = "extract"
    /\ LET x == extractAndAnalyzeZip(req[r].disk)
       IN  req' = [req EXCEPT ![r] =
                     [pc |-> IF x.ok THEN "extracted" ELSE "failed",
                      disk |-> req[r].disk] @@ x]
    /\ UNCHANGED <<JOURNAL_PATTERNS, texContent, scanned, scores, result, calls>>

NextExtract == \E r \in DOMAIN req : ExtractAndAnalyzeZip(r)

SpecExtract == InitExtract /\ [][NextExtract]_vars

-----------------------------------------------------------------------------
(* The POST handler of /api/tools/latex/convert, for one request: the      *)
(* checks, the temporary directory, the extraction, the classification,    *)
(* then the race of the remote engine's conversion with the timer.  The    *)
(* conversion, the timer and the removal of the directory run as they      *)
(* like.  Sizes are in megabytes; an uploaded copy of a file is named by   *)
(* the file it is a copy of.                                               *)

MAX_FILE_SIZE == 50
MAX_ZIP_SIZE == 100

\* the form data: no file, or a file with its name and size and, for an
\* archive, the files it extracts to, at most two of the pool, all readable
Uploads ==
    {undefined}
    \cup {Some([name |-> <<"P","r","o","j","e","c","t",".","Z","I","P">>, size |-> z, disk |-> d]) :
            z \in {60, 120},
            d \in {d \in Disks : Len(d.files) <= 2 /\ d.unreadable = {}}}
    \cup {Some([name |-> n, size |-> z,
                content |-> <<"\\","d","o","c","u","m","e","n","t","c","l","a","s","s","[","t","w","o","c","o","l","u","m","n","]","{","I","E","E","E","t","r","a","n","}","\n">>]) :
            n \in {<<"p","a","p","e","r",".","t","e","x">>,
                   <<"P","a","p","e","r",".","L","a","T","e","X">>,
                   <<"p","a","p","e","r",".","p","d","f">>},
            z \in {1, 60}}

InitHandler ==
    /\ JOURNAL_PATTERNS = JournalPatterns
    /\ texContent = <<>>
    /\ scanned = <<>>
    /\ scores = NoScores
    /\ result = NoResult
    /\ calls = <<>>
    /\ req \in [1..1 ->
                 {[pc |-> "start", upload |-> u, tempDir |-> undefined,
                   dirExists |-> FALSE,
                   zipContents |-> undefined, journalDetection |-> NoResult,
                   conversion |-> "none", conversionResult |-> NoResult,
                   timer |-> "none", cleanup |-> "none",
                   response |-> undefined] : u \in Uploads}]

\* return NextResponse.json({ success: false, error }, { status })
respond(q, status, error) ==
    [q EXCEPT !.pc = "responded",
              !.response = Some([status |-> status, error |-> error])]

\* the catch block: cleanupTempDir(tempDir) is called, not awaited, when
\* tempDir is set; the response has status 500
catch(q, message) ==
    respond([q EXCEPT !.cleanup = IF q.tempDir # undefined THEN "running"
                                  ELSE @],
            500, message)

\* from the entry of the handler to its first response or to its await of
\* Promise.race
POST(r) ==
    /\ req[r].pc = "start"
    /\ \E pandocInstalled, templates \in BOOLEAN,
          made \in {"mkdtemp throws", "mkdir throws", "made"} :
          LET q == req[r]
              file == q.upload
              fileName == toLowerCase(file[1].name)
              isZip == endsWith(fileName, <<".", "z", "i", "p">>)
              isTex == isTexFile(file[1].name)
              maxSize == IF isZip THEN MAX_ZIP_SIZE ELSE MAX_FILE_SIZE
              tempDir == <<"/","t","m","p","/","l","a","t","e","x","-","c","o","n","v","e","r","t","-","1">>
              withDir == [q EXCEPT !.tempDir = Some(tempDir),
                                   !.dirExists = TRUE]
              x == extractAndAnalyzeZip(file[1].disk)
              texPath == pathJoin(tempDir, file[1].name)
              zipContents ==
                  IF isZip THEN x.zipContents
                  ELSE [mainTexFile |-> texPath,
                        mainTexContent |-> file[1].content,
                        workingDir |-> tempDir,
                        allFiles |-> <<texPath>>,
                        texFiles |-> <<texPath>>]
          IN  req' = [req EXCEPT ![r] =
                IF ~pandocInstalled
                THEN respond(q, 500, "Pandoc is not installed on the remote server")
                ELSE IF ~templates
                THEN respond(q, 500, "Failed to setup remote templates")
                ELSE IF file = undefined
                THEN respond(q, 400, "No file provided")
                ELSE IF ~isZip /\ ~isTex
                THEN respond(q, 400, "Invalid file type")
                ELSE IF file[1].size > maxSize
                THEN respond(q, 400, "File too large")
                ELSE IF made = "mkdtemp throws"
                THEN catch(q, "ENOSPC")
                ELSE IF made = "mkdir throws"
                THEN catch(withDir, "ENOSPC")
                ELSE IF isZip /\ ~x.ok
                THEN catch(withDir, x.error)
                ELSE [withDir EXCEPT
                        !.zipContents = Some(zipContents),
                        !.journalDetection =
                            detectJournalType(JOURNAL_PATTERNS,
                                              zipContents.mainTexContent),
                        !.conversion = "pending",
                        !.timer = "armed",
                        !.pc = "race"]]
    /\ UNCHANGED <<JOURNAL_PATTERNS, texContent, scanned, scores, result, calls>>

\* the promise of convertLatexToWord settles: the engine never throws; its
\* pandoc, when it ran, was given the first line of
\* find input -name "*.tex" -type f, any of the uploaded .tex files.  A
\* handler still awaiting the race goes on to its response.
ConversionSettles(r) ==
    /\ req[r].conversion = "pending"
    /\ LET texFiles == req[r].zipContents[1].texFiles
           found == {texFiles[k] : k \in
                       {k \in 1..Len(texFiles) :
                          endsWith(texFiles[k], <<".", "t", "e", "x">>)}}
       IN  \E success, read \in BOOLEAN,
              input \in {undefined} \cup {Some(f) : f \in found} :
              /\ success => input # undefined
              /\ LET q == [req[r] EXCEPT
                             !.conversion = "settled",
                             !.conversionResult =
                                 [success |-> success, pandocInput |-> input]]
                 IN  req' = [req EXCEPT ![r] =
                        IF q.pc # "race" THEN q
                        ELSE IF ~success
                        THEN respond(q, 500, "result.errorMessage")
                        ELSE IF ~read
                        THEN catch(q, "ENOENT")
                        ELSE [q EXCEPT !.pc = "responded",
                                       !.cleanup = "running",
                                       !.response =
                                          Some([status |-> 200,
                                                error |-> ""])]]
    /\ UNCHANGED <<JOURNAL_PATTERNS, texContent, scanned, scores, result, calls>>

\* the timer of CONVERSION_TIMEOUT fires: timeoutPromise rejects, and a
\* handler still awaiting the race enters its catch block
TimeoutFires(r) ==
    /\ req[r].timer = "armed"
    /\ LET q == [req[r] EXCEPT !.timer = "fired"]
       IN  req' = [req EXCEPT ![r] =
                     IF q.pc = "race"
                     THEN catch(q, "Conversion timeout exceeded (5 minutes)")
                     ELSE q]
    /\ UNCHANGED <<JOURNAL_PATTERNS, texContent, scanned, scores, result, calls>>

\* cleanupTempDir: fs.rm removes the directory or throws, which is logged;
\* the promise is fulfilled either way
CleanupTempDir(r) ==
    /\ req[r].cleanup = "running"
    /\ \E removed \in BOOLEAN :
          req' = [req EXCEPT
                    ![r].cleanup = "fulfilled",
                    ![r].dirExists = IF removed THEN FALSE ELSE @]
    /\ UNCHANGED <<JOURNAL_PATTERNS, texContent, scanned, scores, result, calls>>

NextHandler ==
    \E r \in DOMAIN req :
        \/ POST(r)
        \/ ConversionSettles(r)
        \/ TimeoutFires(r)
        \/ CleanupTempDir(r)

SpecHandler == InitHandler /\ [][NextHandler]_vars

-----------------------------------------------------------------------------
(* Properties of a returned detectJournalType result.                      *)

Returned == result # NoResult


S_documentclass ==
    SubSeq(S_documentclass_open, 1, Len(S_documentclass_open) - 1)

\* \documentclass{c} or \documentclass[...]{c} occurs in s
declaresClass(s, c) ==
    LET arg == <<"{">> \o c \o <<"}">>
    IN  \E i \in 1..Len(s) :
            /\ StartsAt(s, i, S_documentclass)
            /\ \/ StartsAt(s, i + Len(S_documentclass), arg)
               \/ /\ StartsAt(s, i, S_documentclass_open)
                  /\ LET j == IndexFrom(s, "]", i + Len(S_documentclass_open))
                     IN  j # 0 /\ StartsAt(s, j + 1, arg)

FamilySet == {Families[k] : k \in 1..Len(Families)}

declaresFamilyClass(s, fam) ==
    \E k \in 1..Len(JournalPatterns[fam].documentClass) :
        declaresClass(s, JournalPatterns[fam].documentClass[k])

\* the marker strings of a family: its commands list and its weight table
markersOf(fam) ==
    {JournalPatterns[fam].commands[k] :
        k \in 1..Len(JournalPatterns[fam].commands)}
    \cup {JournalPatterns[fam].confidence.commands[k].command :
        k \in 1..Len(JournalPatterns[fam].confidence.commands)}

noMarker(s) ==
    \A fam \in FamilySet : \A c \in markersOf(fam) : ~includes(s, c)

noClassDeclared(s) ==
    \A fam \in FamilySet : ~declaresFamilyClass(s, fam)

\* C1: a text that declares no family's class and holds no family's marker
\* is classified GENERIC with confidence 0, documentClass "unknown" and no
\* detected pattern.
C1_GenericWhenNoSignal ==
    (Returned /\ noClassDeclared(texContent) /\ noMarker(texContent))
    => /\ result.journalType = "GENERIC"
       /\ result.confidence = 0
       /\ result.documentClass = "unknown"
       /\ result.detectedPatterns = <<>>

\* a returned call on a text that declares a class of no family
C1_Witness ==
    /\ Returned
    /\ noClassDeclared(texContent)
    /\ noMarker(texContent)
    /\ includes(texContent, S_documentclass_open)
    /\ result.journalType = "GENERIC"

\* the text holds exactly one \documentclass command
oneDeclaration(s) == occurrences(s, S_documentclass) = 1

\* C2: a text whose only signal, within the scanned lines, is the
\* declaration of an Elsevier class, with or without an options block, is
\* classified ELSEVIER with confidence 50 and documentClass "elsarticle".
C2_ElsevierClassOnly ==
    (/\ Returned
     /\ oneDeclaration(scanned)
     /\ declaresFamilyClass(scanned, "ELSEVIER")
     /\ noMarker(scanned))
    => /\ result.journalType = "ELSEVIER"
       /\ result.confidence = JournalPatterns.ELSEVIER.confidence.documentClass
       /\ result.documentClass = "elsarticle"

\* C3: \documentclass{IEEEtran}\n\IEEEkeywords\n is classified IEEE with
\* documentClass "IEEEtran", confidence 50 + 15 and two detected patterns.
C3_IEEEScenario ==
    (Returned /\ texContent = F_ieee_bare \o F_IEEEkeywords)
    => /\ result.journalType = "IEEE"
       /\ result.documentClass = "IEEEtran"
       /\ result.confidence = 65
       /\ Len(result.detectedPatterns) = 2

scoreSeq == <<scores.elsevier, scores.springerNature, scores.ieee, scores.acm>>

topScore == CHOOSE v \in {scoreSeq[k] : k \in 1..4} : \A k \in 1..4 : v >= scoreSeq[k]

\* C4: the result is GENERIC with confidence 0 exactly when the highest of
\* the four scores is 0; otherwise the winner is the first family in the
\* order ELSEVIER, SPRINGER_NATURE, IEEE, ACM whose score is the highest,
\* and the confidence is that score.
C4_WinnerSelection ==
    Returned =>
        /\ (result.journalType = "GENERIC") <=> (topScore = 0)
        /\ (topScore = 0) => (result.confidence = 0)
        /\ (topScore > 0) =>
              \E k \in 1..4 :
                 /\ result.journalType = Families[k]
                 /\ scoreSeq[k] = topScore
                 /\ \A j \in 1..(k - 1) : scoreSeq[j] # topScore
                 /\ result.confidence = topScore
        /\ \A k \in 1..4 : result.confidence >= scoreSeq[k] \/ topScore = 0

\* an exact tie between Springer Nature and IEEE above 0
C4_Witness ==
    /\ Returned
    /\ scores.springerNature = scores.ieee
    /\ scores.ieee > 0
    /\ topScore = scores.ieee
    /\ result.journalType = "SPRINGER_NATURE"

countOf(seq, x) == Cardinality({k \in 1..Len(seq) : seq[k] = x})

RECURSIVE sumOver(_, _)
sumOver(es, s) ==
    IF es = <<>> THEN 0
    ELSE (IF includes(s, es[1].command) THEN es[1].score ELSE 0)
         + sumOver(Tail(es), s)

scoreOfFamily(fam) ==
    CASE fam = "ELSEVIER" -> scores.elsevier
      [] fam = "SPRINGER_NATURE" -> scores.springerNature
      [] fam = "IEEE" -> scores.ieee
      [] fam = "ACM" -> scores.acm

\* the class weight a family was given: 50 when the result lists a
\* "Document class" entry naming one of the family's classes
classPart(fam) ==
    IF \E k \in 1..Len(result.detectedPatterns) :
          /\ result.detectedPatterns[k].label = "Document class"
          /\ arrayIncludes(JournalPatterns[fam].documentClass,
                           result.detectedPatterns[k].text)
    THEN JournalPatterns[fam].confidence.documentClass
    ELSE 0

\* C5: for every family, each marker of its weight table adds its weight
\* once and one detectedPatterns entry if it occurs in the scanned text,
\* however often, and nothing if it does not; a marker of two families
\* counts for both.
C5_MarkerPresence ==
    Returned =>
        \A fam \in FamilySet :
            LET table == JournalPatterns[fam].confidence.commands
            IN  /\ scoreOfFamily(fam) = classPart(fam) + sumOver(table, scanned)
                /\ \A k \in 1..Len(table) :
                      countOf(result.detectedPatterns,
                              [label |-> FamilyLabel(fam),
                               text |-> table[k].command])
                      = (IF includes(scanned, table[k].command) THEN 1 ELSE 0)

\* \journalname occurs twice and is listed once for each of its two families
C5_Witness ==
    /\ Returned
    /\ occurrences(scanned, JournalPatterns.IEEE.commands[5]) = 2
    /\ scores.springerNature = 20
    /\ scores.ieee = 10
    /\ Len(result.detectedPatterns) = 2

\* C8: requiresLogo is true exactly for an IEEE result whose scanned text
\* holds \includegraphics and "LOGO-" or "logo", and for a Springer Nature
\* result whose scanned text holds \includegraphics; so never for ELSEVIER,
\* ACM or GENERIC.
C8_RequiresLogo ==
    Returned =>
        /\ result.requiresLogo
           <=> \/ /\ result.journalType = "IEEE"
                  /\ includes(scanned, S_includegraphics)
                  /\ \/ includes(scanned, S_LOGO_dash)
                     \/ includes(scanned, S_logo)
               \/ /\ result.journalType = "SPRINGER_NATURE"
                  /\ includes(scanned, S_includegraphics)
        /\ result.journalType \in {"ELSEVIER", "ACM", "GENERIC"}
           => ~result.requiresLogo

\* an IEEE result on a text with an image command and neither logo string
C8_Witness ==
    /\ Returned
    /\ result.journalType = "IEEE"
    /\ includes(scanned, S_includegraphics)
    /\ ~includes(scanned, S_LOGO_dash)
    /\ ~includes(scanned, S_logo)
    /\ ~result.requiresLogo

\* C9 as claimed: whenever the scanned text holds LOGO-tmi-web, logoName is
\* LOGO-tmi-web.eps, also when the fragment is the \includegraphics argument.
C9_FragmentAlwaysEps ==
    (Returned /\ includes(scanned, S_LOGO_tmi_web))
    => result.logoName = Some(S_LOGO_tmi_web_eps)

\* the brace groups a logo inclusion can capture: a "{" after an
\* \includegraphics on the same line, read up to the next "}", holding
\* "logo" in any letter case
logoGroups(s) ==
    {SubSeq(s, b + 1, IndexFrom(s, "}", b + 1) - 1) :
        b \in {c \in 1..Len(s) :
                /\ s[c] = "{"
                /\ IndexFrom(s, "}", c + 1) # 0
                /\ \E p \in (c + 1)..(IndexFrom(s, "}", c + 1) - 4) :
                      logoAt(s, p)
                /\ \E i \in 1..c :
                      /\ StartsAt(s, i, S_includegraphics)
                      /\ i + Len(S_includegraphics) <= c
                      /\ \A q \in (i + Len(S_includegraphics))..(c - 1) :
                            s[q] \notin LineTerminators}}

\* C9 amended: with LOGO-tmi-web in the scanned text, logoName is
\* LOGO-tmi-web.eps when no \includegraphics is followed on its line by a
\* brace group holding "logo"; when one is, logoName is such a group's text
\* as written.
C9_FragmentEpsUnlessLogoInclusion ==
    (Returned /\ includes(scanned, S_LOGO_tmi_web))
    => IF logoGroups(scanned) = {}
       THEN result.logoName = Some(S_LOGO_tmi_web_eps)
       ELSE \E g \in logoGroups(scanned) : result.logoName = Some(g)

\* the fragment beside an image command that includes no logo
C9_Witness ==
    /\ Returned
    /\ includes(scanned, S_LOGO_tmi_web)
    /\ includes(scanned, S_includegraphics)
    /\ logoGroups(scanned) = {}
    /\ result.logoName = Some(S_LOGO_tmi_web_eps)

\* C10 as claimed: a defined logoName implies an IEEE or Springer Nature
\* result.
C10_LogoNameOnlyForLogoFamilies ==
    (Returned /\ result.logoName # undefined)
    => result.journalType \in {"IEEE", "SPRINGER_NATURE"}

\* C10 amended: requiresLogo is set only for IEEE and Springer Nature
\* results, while logoName is set from the scanned text alone, whatever the
\* family: it is defined exactly when the text holds a logo inclusion or
\* the LOGO-tmi-web fragment.
C10_LogoNameFromTextAlone ==
    Returned =>
        /\ result.requiresLogo
           => result.journalType \in {"IEEE", "SPRINGER_NATURE"}
        /\ (result.logoName # undefined)
           <=> \/ logoGroups(scanned) # {}
               \/ includes(scanned, S_LOGO_tmi_web)

\* a logo name reported with a GENERIC result
C10_Witness ==
    /\ Returned
    /\ result.journalType = "GENERIC"
    /\ result.logoName # undefined
    /\ ~result.requiresLogo


-----------------------------------------------------------------------------
(* The bibliography style.                                                 *)

\* a \bibliographystyle{S} command with non-empty S starts at i and its
\* closing brace is at k
styleCommandAt(s, i, k) ==
    LET o == i + Len(S_bibliographystyle_open)
    IN  /\ StartsAt(s, i, S_bibliographystyle_open)
        /\ k > o
        /\ k <= Len(s)
        /\ s[k] = "}"
        /\ \A j \in o..(k - 1) : s[j] # "}"

\* C11: when the scanned text holds a \bibliographystyle{S} command with
\* non-empty S, bibStyle is the S of the first one, whatever the class, the
\* winning family and the markers present.
C11_ExplicitStyleWins ==
    Returned =>
        \A i \in 1..Len(scanned) : \A k \in i..Len(scanned) :
            (/\ styleCommandAt(scanned, i, k)
             /\ \A i2 \in 1..(i - 1) : \A k2 \in i2..Len(scanned) :
                    ~styleCommandAt(scanned, i2, k2))
            => result.bibStyle
                = Some(SubSeq(scanned,
                              i + Len(S_bibliographystyle_open), k - 1))

\* an Elsevier declaration followed by \bibliographystyle{plain}
C11_Witness ==
    /\ Returned
    /\ texContent = F_els_opts \o F_bst_plain
    /\ result.journalType = "ELSEVIER"
    /\ result.bibStyle = Some(<<"p","l","a","i","n">>)

\* the style the lookup gives to a document class; for sn-jnl the sub-class
\* marker present in s selects it
styleOfClass(documentClass, s) ==
    CASE documentClass = "elsarticle" -> Some(S_elsarticle_num)
      [] documentClass = "acmart" -> Some(S_ACM_Reference_Format)
      [] documentClass \in {"IEEEtran", "ieeecolor"} -> Some(S_IEEEtran)
      [] documentClass = "sn-jnl" ->
            (IF includes(s, S_sn_nature) THEN Some(S_sn_nature)
             ELSE IF includes(s, S_sn_mathphys) THEN Some(S_sn_mathphys_num)
             ELSE IF includes(s, S_sn_apa) THEN Some(S_sn_apa)
             ELSE IF includes(s, S_sn_chicago) THEN Some(S_sn_chicago)
             ELSE Some(S_sn_basic))
      [] OTHER -> undefined

\* C12: without a \bibliographystyle command, bibStyle is the style the
\* lookup gives to the detected document class, and unset when the document
\* class is "unknown".
C12_StyleFromDetectedClass ==
    (Returned /\ ~includes(scanned, S_bibliographystyle_open))
    => result.bibStyle = styleOfClass(result.documentClass, scanned)

-----------------------------------------------------------------------------
(* The range of the confidence.                                            *)

\* C13: the confidence of every result is an integer from 0 to 100, also
\* for a text that declares a family's class and holds all its markers.
C13_ConfidenceRange ==
    Returned => result.confidence \in 0..100

-----------------------------------------------------------------------------
(* The references of a main file and their validation: one request.        *)

\* the request has its references / its validation report
Extracted == req # <<>> /\ req[1].pc \in {"validate", "done"}
Validated == req # <<>> /\ req[1].pc = "done"

\* a non-empty brace argument opens at b and closes at k
argumentAt(s, b, k) ==
    /\ b >= 1
    /\ k <= Len(s)
    /\ k > b + 1
    /\ s[b] = "{"
    /\ s[k] = "}"
    /\ \A j \in (b + 1)..(k - 1) : s[j] # "}"

\* the non-empty brace argument, if any, that opens at b
argumentsAt(s, b) ==
    {SubSeq(s, b + 1, k - 1) : k \in {k \in 1..Len(s) : argumentAt(s, b, k)}}

\* the elements of a set of positions in increasing order
ascending(S) ==
    [j \in 1..Cardinality(S) |->
        CHOOSE i \in S : Cardinality({i2 \in S : i2 < i}) = j - 1]

RECURSIVE total(_)
total(ns) == IF ns = <<>> THEN 0 ELSE Head(ns) + total(Tail(ns))

\* the arguments of the \bibliography{...} commands of s, in source order
bibliographyArguments(s) ==
    LET starts == {i \in 1..Len(s) :
                     /\ StartsAt(s, i, S_bibliography)
                     /\ argumentsAt(s, i + Len(S_bibliography) - 1) # {}}
        order == ascending(starts)
    IN  [j \in 1..Len(order) |->
            CHOOSE a \in argumentsAt(s, order[j] + Len(S_bibliography) - 1) :
                TRUE]

\* C14: the bibliographies list is, command after command in source order,
\* the comma-separated parts p1..pn of each \bibliography{p1,...,pn}, each
\* trimmed of surrounding whitespace: n entries for a command.
C14_BibliographyParts ==
    Extracted =>
        LET args == bibliographyArguments(req[1].zipContents.mainTexContent)
            bibs == req[1].assets.bibliographies
        IN  /\ bibs = concat([j \in 1..Len(args) |->
                                trimAll(split(args[j], ","))])
            /\ Len(bibs)
                = total([j \in 1..Len(args) |-> 1 + countOf(args[j], ",")])
            /\ \A k \in 1..Len(bibs) :
                  bibs[k] # <<>>
                  => /\ bibs[k][1] \notin WhiteSpace
                     /\ bibs[k][Len(bibs[k])] \notin WhiteSpace

\* \bibliography{a, b ,c}\bibliography{refs} gives a, b, c, refs
C14_Witness ==
    /\ Extracted
    /\ Len(bibliographyArguments(req[1].zipContents.mainTexContent)) = 2
    /\ req[1].assets.bibliographies
        = << <<"a">>, <<"b">>, <<"c">>, <<"r", "e", "f", "s">> >>

\* the arguments of the \includegraphics commands of s, with or without a
\* bracketed option block before the brace, in source order
graphicsArguments(s) ==
    LET a(i) == i + Len(S_includegraphics)
        braceOf(i) ==
            IF a(i) <= Len(s) /\ s[a(i)] = "["
            THEN LET close == {j \in (a(i) + 1)..Len(s) : s[j] = "]"}
                 IN  IF close = {} THEN 0 ELSE Min(close) + 1
            ELSE a(i)
        starts == {i \in 1..Len(s) :
                     /\ StartsAt(s, i, S_includegraphics)
                     /\ argumentsAt(s, braceOf(i)) # {}}
        order == ascending(starts)
    IN  [j \in 1..Len(order) |->
            CHOOSE x \in argumentsAt(s, braceOf(order[j])) : TRUE]

\* C15: the figures list is the sequence, in source order and with
\* repetitions, of the brace arguments of the \includegraphics commands,
\* with or without an option block, which is never part of a reference;
\* it is empty when the text has no such command.
C15_FigureArguments ==
    Extracted =>
        LET text == req[1].zipContents.mainTexContent
            figures == req[1].assets.figures
        IN  /\ figures = graphicsArguments(text)
            /\ \A k \in 1..Len(figures) :
                  \A p \in 1..Len(figures[k]) : figures[k][p] \notin {"[", "]"}
            /\ ~includes(text, S_includegraphics) => figures = <<>>

\* the same command with an option block twice: two equal references
C15_Witness ==
    /\ Extracted
    /\ includes(req[1].zipContents.mainTexContent, <<"[","w","i","d","t","h">>)
    /\ req[1].assets.figures
        = << <<"f","i","g","s","/","p","l","o","t","1">>,
             <<"f","i","g","s","/","p","l","o","t","1">> >>

\* the elements of a sequence
Range(seq) == {seq[k] : k \in 1..Len(seq)}

\* some manifest file is workingDir/(r+e), or has the basename of r with e
\* appended, for e empty or one of exts
resolvable(r, exts, workingDir, allFiles) ==
    \E e \in {<<>>} \cup Range(exts) :
        \/ pathJoin(workingDir, r \o e) \in Range(allFiles)
        \/ \E f \in Range(allFiles) : basename(f) = basename(r) \o e

\* C16: a reference is resolved, i.e. not reported, exactly when the
\* manifest holds workingDir/(r+e) or a file whose basename is
\* basename(r)+e, for e empty or an extension of the reference's own
\* category.
C16_ResolutionRule ==
    Validated =>
        LET z == req[1].zipContents
            a == req[1].assets
            v == req[1].validation
        IN  /\ \A r \in Range(a.figures) :
                  reportLine(S_Figure, r) \notin Range(v.missing)
                  <=> resolvable(r, FigureExtensions, z.workingDir, z.allFiles)
            /\ \A r \in Range(a.inputs) :
                  reportLine(S_Input_file_not_found, r) \notin Range(v.warnings)
                  <=> resolvable(r, InputExtensions, z.workingDir, z.allFiles)
            /\ \A r \in Range(a.bibliographies) :
                  reportLine(S_Bibliography_not_found, r)
                      \notin Range(v.warnings)
                  <=> resolvable(r, BibExtensions, z.workingDir, z.allFiles)

\* figure figs/plot1 in /proj with manifest /proj/figs/plot1.png: nothing
\* is missing
C16_Witness ==
    /\ Validated
    /\ req[1].assets.figures = << <<"f","i","g","s","/","p","l","o","t","1">> >>
    /\ req[1].zipContents.allFiles
        = << <<"/","p","r","o","j","/","f","i","g","s","/","p","l","o","t","1",".","p","n","g">> >>
    /\ req[1].validation.missing = <<>>

\* no manifest file is at the reference's relative path, with or without an
\* image extension
noPathMatch(r, workingDir, allFiles) ==
    \A e \in {<<>>} \cup Range(FigureExtensions) :
        pathJoin(workingDir, r \o e) \notin Range(allFiles)

\* some manifest file has the reference's basename, bare or with an image
\* extension
basenameMatch(r, allFiles) ==
    \E e \in {<<>>} \cup Range(FigureExtensions) :
        \E f \in Range(allFiles) : basename(f) = basename(r) \o e

\* C17: a figure reference matching no manifest entry by relative path but
\* matching one by basename, in whatever directory, is not in missing.
C17_BasenameFallback ==
    Validated =>
        \A r \in Range(req[1].assets.figures) :
            (/\ noPathMatch(r, req[1].zipContents.workingDir,
                            req[1].zipContents.allFiles)
             /\ basenameMatch(r, req[1].zipContents.allFiles))
            => reportLine(S_Figure, r) \notin Range(req[1].validation.missing)

\* figs/plot1 found as /proj/other/plot1.pdf
C17_Witness ==
    /\ Validated
    /\ req[1].assets.figures = << <<"f","i","g","s","/","p","l","o","t","1">> >>
    /\ noPathMatch(req[1].assets.figures[1], req[1].zipContents.workingDir,
                   req[1].zipContents.allFiles)
    /\ <<"/","p","r","o","j","/","o","t","h","e","r","/","p","l","o","t","1",".","p","d","f">>
        \in Range(req[1].zipContents.allFiles)
    /\ req[1].validation.missing = <<>>

\* the lines reported for the unresolved references of a list, in its order
unresolvedLines(refs, exts, label) ==
    LET z == req[1].zipContents
        unresolved(r) == ~resolvable(r, exts, z.workingDir, z.allFiles)
        left == SelectSeq(refs, unresolved)
    IN  [k \in 1..Len(left) |-> reportLine(label, left[k])]

\* C18: missing holds one entry "Figure: <ref>" for each unresolved figure
\* reference, in the order of the figures list, and none for a resolved
\* one.
C18_MissingFigures ==
    Validated =>
        LET z == req[1].zipContents
            figures == req[1].assets.figures
            missing == req[1].validation.missing
            unresolved(r) ==
                ~resolvable(r, FigureExtensions, z.workingDir, z.allFiles)
        IN  /\ missing = unresolvedLines(figures, FigureExtensions, S_Figure)
            /\ Len(missing) = Len(SelectSeq(figures, unresolved))

\* two figures, one of them found: one entry
C18_Witness ==
    /\ Validated
    /\ Len(req[1].assets.figures) = 2
    /\ req[1].validation.missing
        = << <<"F","i","g","u","r","e",":"," ","i","m","g","/","m","i","s","s","i","n","g">> >>

\* C19: only figures are reported in missing and only inputs and
\* bibliographies in warnings, the inputs before the bibliographies; with
\* an empty manifest every reference is reported.
C19_ReportsByCategory ==
    Validated =>
        LET a == req[1].assets
            v == req[1].validation
        IN  /\ \A k \in 1..Len(v.missing) :
                  \E r \in Range(a.figures) :
                      v.missing[k] = reportLine(S_Figure, r)
            /\ v.warnings
                = unresolvedLines(a.inputs, InputExtensions,
                                  S_Input_file_not_found)
                  \o unresolvedLines(a.bibliographies, BibExtensions,
                                     S_Bibliography_not_found)
            /\ req[1].zipContents.allFiles = <<>>
               => /\ Len(v.missing) = Len(a.figures)
                  /\ Len(v.warnings) = Len(a.inputs) + Len(a.bibliographies)

\* \bibliography{refs} before \input{sec}, no file: the input is reported
\* first
C19_Witness ==
    /\ Validated
    /\ req[1].zipContents.allFiles = <<>>
    /\ req[1].assets.inputs # <<>>
    /\ req[1].assets.bibliographies # <<>>
    /\ Len(req[1].validation.warnings) = 2
    /\ StartsAt(req[1].validation.warnings[1], 1, S_Input_file_not_found)
    /\ StartsAt(req[1].validation.warnings[2], 1, S_Bibliography_not_found)
    /\ StartsAt(req[1].zipContents.mainTexContent, 1, S_bibliography)

-----------------------------------------------------------------------------
(* Missing assets and the conversion.                                      *)

Converted == req # <<>> /\ req[1].pc = "returned"

\* the errors of the steps that follow validation
LaterStepErrors ==
    {"Pandoc conversion failed", "Failed to spawn Pandoc",
     "Failed to setup remote environment",
     "Could not find main .tex file on remote server",
     "Output file was not created",
     "Failed to download converted file from remote server", "ENOENT"}

\* C20: whatever validateAssets reports, the conversion goes on: the
\* result's warnings begin with the validation warnings, followed by one
\* "Missing assets: ..." line naming every missing entry when there is one
\* and by no such line otherwise; the local engine always selects a
\* template and invokes the converter, the remote engine does unless its
\* own setup or its search for the main file fails; a failed result carries
\* the error of a step after validation.
C20_MissingNeverBlocks ==
    Converted =>
        LET q == req[1]
            v == q.validation
            w == q.conversionResult.warnings
            lines == {k \in 1..Len(w) : StartsAt(w[k], 1, S_Missing_assets)}
        IN  /\ Len(w) >= Len(v.warnings)
            /\ SubSeq(w, 1, Len(v.warnings)) = v.warnings
            /\ Cardinality(lines) = IF v.missing = <<>> THEN 0 ELSE 1
            /\ \A k \in lines :
                  /\ k = Len(v.warnings) + 1
                  /\ \A m \in 1..Len(v.missing) : includes(w[k], v.missing[m])
            /\ q.engine = "local" => q.invoked /\ q.templateName # ""
            /\ q.engine = "remote"
               => \/ q.invoked /\ q.templateName # ""
                  \/ /\ ~q.conversionResult.success
                     /\ q.conversionResult.errorMessage
                         \in {"Failed to setup remote environment",
                              "Could not find main .tex file on remote server"}
            /\ ~q.conversionResult.success
               => q.conversionResult.errorMessage \in LaterStepErrors

\* a successful conversion with two figures missing and both named in one
\* warning
C20_Witness ==
    /\ Converted
    /\ req[1].conversionResult.success
    /\ Len(req[1].validation.missing) = 2
    /\ req[1].conversionResult.warnings
        = << S_Missing_assets
             \o <<"F","i","g","u","r","e",":"," ","f","i","g","s","/","p","l","o","t","1">>
             \o <<",", " ">>
             \o <<"F","i","g","u","r","e",":"," ","i","m","g","/","m","i","s","s","i","n","g">> >>

-----------------------------------------------------------------------------
(* The template of a conversion.                                           *)

\* the five-entry lookup
TemplateOf ==
    [ELSEVIER |-> "elsevier_publication.yaml",
     SPRINGER_NATURE |-> "springer_publication.yaml",
     IEEE |-> "ieee_publication.yaml",
     ACM |-> "acm_publication.yaml",
     GENERIC |-> "generic_publication.yaml"]

-----------------------------------------------------------------------------
(* The class options.                                                      *)

\* the bracketed options string of the leftmost declaration
\* \documentclass[...]{name} of s, if there is one
recognizedOptions(s) ==
    LET o(i) == i + Len(S_documentclass_open)
        closing(i) == {p \in o(i)..Len(s) : s[p] = "]"}
        valid == {i \in 1..Len(s) :
                    /\ StartsAt(s, i, S_documentclass_open)
                    /\ closing(i) # {}
                    /\ argumentsAt(s, Min(closing(i)) + 1) # {}}
    IN  IF valid = {} THEN undefined
        ELSE Some(SubSeq(s, o(Min(valid)), Min(closing(Min(valid))) - 1))

\* C22: with a recognized declaration, classOptions is its options string
\* split at the commas, each piece trimmed, in written order, and empty for
\* an empty bracket block; without a bracket block, and without any
\* declaration, classOptions is empty; without any declaration
\* documentClass is "unknown" and every family's score is the sum of the
\* weights of its markers present.
C22_ClassOptions ==
    Returned =>
        LET opts == recognizedOptions(scanned)
            co == result.classOptions
        IN  /\ opts # undefined /\ opts[1] # <<>>
               => /\ co = trimAll(split(opts[1], ","))
                  /\ Len(co) = countOf(opts[1], ",") + 1
                  /\ \A k \in 1..Len(co) :
                        /\ countOf(co[k], ",") = 0
                        /\ co[k] # <<>>
                           => /\ co[k][1] \notin WhiteSpace
                              /\ co[k][Len(co[k])] \notin WhiteSpace
            /\ opts # undefined /\ opts[1] = <<>> => co = <<>>
            /\ ~includes(scanned, S_documentclass_open) => co = <<>>
            /\ ~includes(scanned, S_documentclass)
               => /\ co = <<>>
                  /\ result.documentClass = "unknown"
                  /\ \A fam \in FamilySet :
                        scoreOfFamily(fam)
                        = sumOver(JournalPatterns[fam].confidence.commands,
                                  scanned)

\* [a4paper, 12pt ] gives a4paper and 12pt
C22_Witness ==
    /\ Returned
    /\ texContent = F_article
    /\ result.classOptions
        = << <<"a","4","p","a","p","e","r">>, <<"1","2","p","t">> >>

-----------------------------------------------------------------------------
(* The scanned lines.                                                      *)

\* the first 150 lines of text: text itself when it has at most 149 line
\* breaks, else what precedes its 150th line break
first150(text) ==
    LET breaks == {p \in 1..Len(text) : text[p] = "\n"}
    IN  IF Cardinality(breaks) < 150 THEN text
        ELSE SubSeq(text, 1,
                    (CHOOSE p \in breaks :
                        Cardinality({q \in breaks : q <= p}) = 150) - 1)

\* C23: the result is a function of the first 150 lines of the text: a text
\* of more than 150 lines gives the result of every text with the same
\* first 150 lines, whatever class declaration, marker, logo inclusion or
\* \bibliographystyle command follows them.
C23_OnlyFirstLines ==
    Returned =>
        LET head == first150(texContent)
        IN  /\ scanned = head
            /\ Len(head) < Len(texContent)
               => \A tail \in TruncFragments :
                     detectJournalType(JournalPatterns,
                                       head \o <<"\n">> \o tail) = result

\* an IEEE declaration and a \bibliographystyle command on line 151 of a
\* text classified GENERIC and given no style
C23_Witness ==
    /\ Returned
    /\ \E tail \in {F_ieee_opts, F_bst_plain} :
          texContent = F_blank_lines \o tail
    /\ result.journalType = "GENERIC"
    /\ result.bibStyle = undefined
-----------------------------------------------------------------------------
(* The main file of an archive.                                            *)

\* the rank the names have among the files that hold \documentclass, names
\* compared without regard to case
nameRank(p) ==
    LET name == toLowerCase(basename(p))
    IN  CASE name = <<"m","a","i","n",".","t","e","x">> -> 5
          [] name = <<"p","a","p","e","r",".","t","e","x">> -> 4
          [] name = <<"d","o","c","u","m","e","n","t",".","t","e","x">> -> 3
          [] name = <<"m","a","n","u","s","c","r","i","p","t",".","t","e","x">> -> 2
          [] OTHER -> IF \E i \in 1..(Len(name) - 3) :
                            SubSeq(name, i, i + 3) = <<"m","a","i","n">>
                      THEN 1 ELSE 0

\* C24: findMainTexFile returns null exactly when the archive has no .tex
\* or .latex file, and extractAndAnalyzeZip then fails; a single such file
\* is chosen; of several, when some readable file holds \documentclass the
\* chosen file is one of those, none of them has a name of higher rank
\* (main.tex, paper.tex, document.tex, manuscript.tex, a name containing
\* "main", any other) and none of the same rank is larger; when none holds
\* \documentclass the chosen file is named as the first of main.tex,
\* paper.tex, document.tex, manuscript.tex that names a file, or else no
\* file is larger than the chosen one.
C24_MainFile ==
    \A r \in DOMAIN req :
        req[r].pc # "extract" =>
            LET q == req[r]
                size(p) == fileAt(q.disk, p).size
                T == {p \in {q.disk.files[k].path :
                                k \in 1..Len(q.disk.files)} : isTexFile(p)}
                D == {p \in T :
                        /\ p \notin q.disk.unreadable
                        /\ \E i \in 1..Len(fileAt(q.disk, p).content) :
                              StartsAt(fileAt(q.disk, p).content, i,
                                       S_documentclass)}
                named(n) == {p \in T : nameRank(p) = n}
                m == q.mainTexFile[1]
            IN  /\ q.mainTexFile = undefined <=> T = {}
                /\ T = {} => q.pc = "failed"
                /\ T # {} => m \in T
                /\ D # {} /\ Cardinality(T) > 1 =>
                      /\ m \in D
                      /\ \A d \in D :
                            /\ nameRank(d) <= nameRank(m)
                            /\ nameRank(d) = nameRank(m) => size(d) <= size(m)
                /\ D = {} /\ Cardinality(T) > 1 =>
                      IF \E n \in 2..5 : named(n) # {}
                      THEN /\ nameRank(m) >= 2
                           /\ \A n \in 2..5 : named(n) # {} => n <= nameRank(m)
                      ELSE \A p \in T : size(p) <= size(m)

\* three .tex files: two named main.tex and holding \documentclass, the
\* larger of them chosen, and a paper.tex without \documentclass
C24_Witness ==
    \E r \in DOMAIN req :
        /\ req[r].pc = "extracted"
        /\ Len(req[r].texFiles) = 3
        /\ req[r].disk.unreadable = {}
        /\ req[r].zipContents.mainTexFile = <<"/","w","/","o","l","d","/","M","A","I","N",".","T","E","X">>
        /\ \E k \in 1..3 : req[r].texFiles[k] = <<"/","w","/","m","a","i","n",".","t","e","x">>
        /\ \E k \in 1..3 : req[r].texFiles[k] = <<"/","w","/","p","a","p","e","r",".","t","e","x">>

-----------------------------------------------------------------------------
(* The class named by the result.                                          *)

\* \documentclass[...]{c} occurs in s
declaresWithOptions(s, c) ==
    \E i \in 1..Len(s) :
        /\ StartsAt(s, i, S_documentclass_open)
        /\ LET j == IndexFrom(s, "]", i + Len(S_documentclass_open))
           IN  j # 0 /\ StartsAt(s, j + 1, <<"{">> \o c \o <<"}">>)

\* the label the result gives a class of a family's list
labelOfClass(fam, c) ==
    CASE fam = "ELSEVIER" -> "elsarticle"
      [] fam = "SPRINGER_NATURE" -> "sn-jnl"
      [] fam = "ACM" -> "acmart"
      [] fam = "IEEE" ->
            IF \E i \in 1..Len(c) : StartsAt(c, i, S_ieeecolor)
            THEN "ieeecolor" ELSE "IEEEtran"

\* C25: when the one class declaration of the scanned text has an options
\* block and names a class of a family's list, documentClass is that
\* family's label (elsarticle, sn-jnl, acmart, and for IEEE ieeecolor if
\* the name contains ieeecolor, else IEEEtran) whichever family wins;
\* documentClass is never "article"; the four lists are pairwise disjoint
\* and detectedPatterns holds at most one "Document class" entry.
C25_ClassLabel ==
    Returned =>
        /\ \A fam \in FamilySet :
              \A k \in 1..Len(JOURNAL_PATTERNS[fam].documentClass) :
                 LET c == JOURNAL_PATTERNS[fam].documentClass[k]
                 IN  (oneDeclaration(scanned) /\ declaresWithOptions(scanned, c))
                        => result.documentClass = labelOfClass(fam, c)
        /\ result.documentClass # "article"
        /\ \A f, g \in FamilySet :
              f # g => \A i \in 1..Len(JOURNAL_PATTERNS[f].documentClass) :
                          ~arrayIncludes(JOURNAL_PATTERNS[g].documentClass,
                                         JOURNAL_PATTERNS[f].documentClass[i])
        /\ Cardinality({k \in 1..Len(result.detectedPatterns) :
              result.detectedPatterns[k].label = "Document class"}) <= 1

\* acmart declared, Elsevier wins the tie at 50 with three of its markers
C25_Witness ==
    /\ Returned
    /\ declaresWithOptions(scanned, S_acmart)
    /\ result.documentClass = "acmart"
    /\ result.journalType = "ELSEVIER"
    /\ scores.acm = 50
    /\ scores.elsevier = 50

\* cas-dc declared, Springer Nature has the highest score
C25_WitnessOutscored ==
    /\ Returned
    /\ declaresWithOptions(scanned, <<"c","a","s","-","d","c">>)
    /\ result.documentClass = "elsarticle"
    /\ result.journalType = "SPRINGER_NATURE"
    /\ result.confidence > scores.elsevier

-----------------------------------------------------------------------------
(* The three extraction passes.                                            *)

\* the arguments of the \input{...} and \include{...} commands of s, in
\* source order
inputArguments(s) ==
    LET braceOf(i) ==
            IF StartsAt(s, i, S_input) THEN i + Len(S_input) - 1
            ELSE IF StartsAt(s, i, S_include) THEN i + Len(S_include) - 1
            ELSE 0
        starts == {i \in 1..Len(s) : argumentsAt(s, braceOf(i)) # {}}
        order == ascending(starts)
    IN  [j \in 1..Len(order) |->
            CHOOSE x \in argumentsAt(s, braceOf(order[j])) : TRUE]

S_bibliographystyle ==
    SubSeq(S_bibliographystyle_open, 1, Len(S_bibliographystyle_open) - 1)

\* C26: the passes do not capture one another's commands: inputs is the
\* source-order sequence of the arguments of the \input{...} and
\* \include{...} commands, both kinds in one list, so that an
\* \includegraphics command adds nothing to it; figures holds one entry for
\* each \includegraphics command and bibliographies the parts of the
\* \bibliography{...} commands, so that a \bibliographystyle command adds
\* to no list.
C26_SeparatePasses ==
    Extracted =>
        LET text == req[1].zipContents.mainTexContent
            assets == req[1].assets
            bibArgs == bibliographyArguments(text)
        IN  /\ assets.inputs = inputArguments(text)
            /\ Len(assets.figures) = Len(graphicsArguments(text))
            /\ Len(assets.bibliographies)
                = total([j \in 1..Len(bibArgs) |->
                            1 + countOf(bibArgs[j], ",")])
            /\ (~includes(text, S_input) /\ ~includes(text, S_include))
                  => assets.inputs = <<>>
            /\ ~includes(text, S_bibliography)
                  => assets.bibliographies = <<>>
            /\ \A i \in 1..Len(text) :
                  StartsAt(text, i, S_bibliographystyle) =>
                     \A x \in argumentsAt(text, i + Len(S_bibliographystyle)) :
                        x \notin Range(assets.figures) \cup Range(assets.inputs)
                                 \cup Range(assets.bibliographies)

\* an \includegraphics command and a \bibliographystyle command: one
\* figure, no input, no bibliography
C26_Witness ==
    /\ Extracted
    /\ includes(req[1].zipContents.mainTexContent, S_includegraphics)
    /\ includes(req[1].zipContents.mainTexContent, S_bibliographystyle)
    /\ Len(req[1].assets.figures) = 1
    /\ req[1].assets.inputs = <<>>
    /\ req[1].assets.bibliographies = <<>>

\* \include{ch/intro} before \input{sec}: both in inputs, in that order
C26_WitnessInterleaved ==
    /\ Extracted
    /\ req[1].assets.inputs
        = << <<"c","h","/","i","n","t","r","o">>,
             <<"s","e","c">> >>

-----------------------------------------------------------------------------
(* The path steps and the basename step.                                   *)

\* no segment of r is "." or "..", and r does not end with "/"
plainReference(r) ==
    /\ \A k \in 1..Len(split(r, "/")) :
          split(r, "/")[k] \notin {S_dot, S_dotdot}
    /\ r # <<>> => r[Len(r)] # "/"

\* some manifest file is workingDir/(r+e), e empty or one of exts
pathResolves(r, exts, workingDir, allFiles) ==
    \E e \in {<<>>} \cup Range(exts) :
        pathJoin(workingDir, r \o e) \in Range(allFiles)

\* some manifest file has the basename of r with e appended
nameResolves(r, exts, allFiles) ==
    \E e \in {<<>>} \cup Range(exts) :
        \E f \in Range(allFiles) : basename(f) = basename(r) \o e

\* the references of the request, each with its extensions, its label and
\* the list it is reported in
referencesOf(q) ==
    {[ref |-> r, exts |-> FigureExtensions,
      line |-> reportLine(S_Figure, r), list |-> q.validation.missing] :
        r \in Range(q.assets.figures)}
    \cup {[ref |-> r, exts |-> InputExtensions,
           line |-> reportLine(S_Input_file_not_found, r),
           list |-> q.validation.warnings] :
        r \in Range(q.assets.inputs)}
    \cup {[ref |-> r, exts |-> BibExtensions,
           line |-> reportLine(S_Bibliography_not_found, r),
           list |-> q.validation.warnings] :
        r \in Range(q.assets.bibliographies)}

\* C27: for a reference without "." or ".." segments and without a trailing
\* slash, resolving by the exact or extension-appended relative path
\* implies resolving by basename, so such a reference is reported
\* unresolved exactly when no manifest file has the basename
\* basename(ref)+e, e empty or an extension of the reference's category.
C27_BasenameSubsumes ==
    Validated =>
        \A w \in referencesOf(req[1]) :
            plainReference(w.ref) =>
                /\ pathResolves(w.ref, w.exts, req[1].zipContents.workingDir,
                                req[1].zipContents.allFiles)
                   => nameResolves(w.ref, w.exts, req[1].zipContents.allFiles)
                /\ w.line \in Range(w.list)
                   <=> ~nameResolves(w.ref, w.exts,
                                     req[1].zipContents.allFiles)

\* \input{sec} with /proj/sec.tex in the manifest: found at its relative
\* path with the extension appended, and by its basename
C27_Witness ==
    /\ Validated
    /\ req[1].assets.inputs = << <<"s","e","c">> >>
    /\ plainReference(req[1].assets.inputs[1])
    /\ pathResolves(req[1].assets.inputs[1], InputExtensions,
                    req[1].zipContents.workingDir, req[1].zipContents.allFiles)
    /\ nameResolves(req[1].assets.inputs[1], InputExtensions,
                    req[1].zipContents.allFiles)
    /\ req[1].validation.warnings = <<>>

-----------------------------------------------------------------------------
(* The temporary directory of a request and the input of pandoc.           *)

\* C28: once the temporary directory of the request has been created, a
\* response of the handler, whether the download, the answer to a thrown
\* error or to the timeout, or the answer to a conversion result with
\* success = false, comes with a call of cleanupTempDir for the directory;
\* the promise of cleanupTempDir is never rejected.
C28_CleanupOnEveryReturn ==
    \A r \in DOMAIN req :
        /\ (req[r].pc = "responded" /\ req[r].tempDir # undefined)
              => req[r].cleanup \in {"running", "fulfilled"}
        /\ req[r].cleanup \in {"none", "running", "fulfilled"}

\* C29: the temporary directory is not removed while the conversion of the
\* request runs: cleanupTempDir has been called only if the promise of
\* convertLatexToWord has settled or was never made, also when the timer
\* wins the race.
C29_CleanupAfterConversion ==
    \A r \in DOMAIN req :
        req[r].cleanup # "none" => req[r].conversion # "pending"

\* C30: for an archive with more than one .tex file, the file pandoc was
\* given is the uploaded copy of zipContents.mainTexFile, the file whose
\* text was classified and validated.
C30_PandocInputIsMainFile ==
    \A r \in DOMAIN req :
        (/\ req[r].conversion = "settled"
         /\ req[r].conversionResult.pandocInput # undefined
         /\ Len(req[r].zipContents[1].texFiles) > 1)
        => req[r].conversionResult.pandocInput
            = Some(req[r].zipContents[1].mainTexFile)

====
